---- MODULE Spec2Model ----
(***************************************************************************)
(* Verification model of the near-duplicate image deduplication pipeline.  *)
(*                                                                         *)
(*   stage1   two-phase similarity clustering   (SpecStage1)               *)
(*   shared   PointExplorer vector store        (SpecExplorer)             *)
(*   stage9   cluster triage and GIF refinement (SpecStage9)               *)
(*   stage11  mutation planner                  (SpecStage11)              *)
(*   shared   PointExplorer persistence         (SpecPersist)              *)
(*   stage9   GifWorker static-GIF filter       (SpecGifWorker)            *)
(*   stage9   GifWorker frame extraction        (SpecFrames)               *)
(*   stage11  mutation emitter                  (SpecEmitter)              *)
(*   shared   HnswIndex mode flip               (SpecHnsw)                 *)
(*   stage7   object-store rename               (SpecRename)               *)
(*                                                                         *)
(* Similarities are fixed-point numbers in thousandths (0.985 is 985).     *)
(* Point ids (UUIDs) are the integers 1..MaxIds.                           *)
(***************************************************************************)
EXTENDS Integers, Sequences, FiniteSets, TLC

VARIABLES
    \* stage1
    sim_map, all_ids, chunk_size, pc1, all_local_clusters, lc_idx, global_clusters,
    \* shared::point_explorer
    point_vector_map, pe_op, pe_ret, pe_panicked,
    \* stage9
    cursor, points_metadata, pc9, extract_clusters_res, refine_gif_res,
    clip_req, clip_sim, clip_res, final_classification,
    \* stage11
    item, points_metadata_ex, pc11, task,
    \* shared::point_explorer, side tables and persistence
    explorer, disk, loaded, pcS, st_op, st_ret,
    \* stage9 GifWorker
    gif_pair, gif_files, results, pcG,
    \* stage9 GifWorker::process_single
    gif_path, allow_poor, frames_res, pcF,
    \* stage11 emitter
    all_tasks, dry_run, worker_num, stream_pos, in_progress, sent, collection, drained, failed_tasks, emit_ret, pcE,
    \* shared::hnsw
    hnsw_index, hnsw_log,
    \* stage7 rename
    wrong_files, rename_dry_run, rename_workers, skip_ext_pairs, object_store, store_before, rename_pos, rename_state, rename_log, rename_failed, rename_ret, pcR

vars1 == <<sim_map, all_ids, chunk_size, pc1, all_local_clusters, lc_idx, global_clusters>>
varsPE == <<point_vector_map, pe_op, pe_ret, pe_panicked>>
vars9 == <<cursor, points_metadata, pc9, extract_clusters_res, refine_gif_res,
           clip_req, clip_sim, clip_res, final_classification>>
vars11 == <<item, points_metadata_ex, pc11, task>>
varsS == <<explorer, disk, loaded, pcS, st_op, st_ret>>
varsG == <<gif_pair, gif_files, results, pcG>>
varsF == <<gif_path, allow_poor, frames_res, pcF>>
varsE == <<all_tasks, dry_run, worker_num, stream_pos, in_progress, sent, collection, drained, failed_tasks, emit_ret, pcE>>
varsH == <<hnsw_index, hnsw_log>>
varsR == <<wrong_files, rename_dry_run, rename_workers, skip_ext_pairs, object_store, store_before, rename_pos, rename_state, rename_log, rename_failed, rename_ret, pcR>>
vars == <<vars1, varsPE, vars9, vars11, varsS, varsG, varsF, varsE, varsH, varsR>>

\* What a step of one program leaves alone: the state of the other programs.
others1 == <<varsPE, vars9, vars11, varsS, varsG, varsF, varsE, varsH, varsR>>
othersPE == <<vars1, vars9, vars11, varsS, varsG, varsF, varsE, varsH, varsR>>
others9 == <<vars1, varsPE, vars11, varsS, varsG, varsF, varsE, varsH, varsR>>
others11 == <<vars1, varsPE, vars9, varsS, varsG, varsF, varsE, varsH, varsR>>
othersS == <<vars1, varsPE, vars9, vars11, varsG, varsF, varsE, varsH, varsR>>
othersG == <<vars1, varsPE, vars9, vars11, varsS, varsF, varsE, varsH, varsR>>
othersF == <<vars1, varsPE, vars9, vars11, varsS, varsG, varsE, varsH, varsR>>
othersE == <<vars1, varsPE, vars9, vars11, varsS, varsG, varsF, varsH, varsR>>
othersH == <<vars1, varsPE, vars9, vars11, varsS, varsG, varsF, varsE, varsR>>
othersR == <<vars1, varsPE, vars9, vars11, varsS, varsG, varsF, varsE, varsH>>

----------------------------------------------------------------------------
(* Generic helpers *)

Range(s) == {s[k] : k \in 1..Len(s)}

\* Option<T>: None is the empty sequence, Some(x) the one-element sequence.
None == <<>>
Some(x) == <<x>>

\* All orderings of a finite set, as sequences without repetition.
RECURSIVE Perms(_)
Perms(S) ==
    IF S = {} THEN {<<>>}
    ELSE UNION {{<<x>> \o p : p \in Perms(S \ {x})} : x \in S}

RECURSIVE Flatten(_)
Flatten(ss) == IF ss = <<>> THEN <<>> ELSE Head(ss) \o Flatten(Tail(ss))

----------------------------------------------------------------------------
(* stage1: two-phase clustering, src/stage1/src/main.rs *)

MaxIds == 3
Ids == 1..MaxIds

THRESHOLD == 985

\* Similarity values a stored pair may carry: exactly at and above the threshold.
\* A pair below the threshold is cut like a pair that is not stored (0.0).
SimValues == {THRESHOLD, THRESHOLD + 5}

UnorderedPairs == {p \in Ids \X Ids : p[1] < p[2]}

\* The sim_map file has a row (an inner map, possibly empty) for each id of
\* keys; it stores a pair in the row of its smaller id only ("upper") or in the
\* rows of both ids ("full"); a pair may also be absent (val 0).
Layouts == {"upper", "full"}

BuildSimMap(keys, val, layout) ==
    LET pair(a, b) == IF a < b THEN <<a, b>> ELSE <<b, a>>
    IN  [a \in keys |->
            [b \in {b \in Ids : /\ b # a
                                /\ val[pair(a, b)] # 0
                                /\ (layout = "full" \/ a < b)} |-> val[pair(a, b)]]]

SimMaps == {BuildSimMap(keys, val, layout) :
                keys \in SUBSET Ids,
                val \in [UnorderedPairs -> SimValues \cup {0}],
                layout \in Layouts}

\* A lookup that answers 1.0 for a pair stored in neither direction: the variant
\* the treatment of missing pairs is tested against.
LookupSimOrOne(sm, a, b) ==
    IF a \in DOMAIN sm /\ b \in DOMAIN sm[a] THEN sm[a][b]
    ELSE IF b \in DOMAIN sm /\ a \in DOMAIN sm[b] THEN sm[b][a]
    ELSE 1000

\* sim_map.get(&a).and_then(|m| m.get(&b)).copied()
\*     .or_else(|| sim_map.get(&b).and_then(|m| m.get(&a)).copied()).unwrap_or(0.0)
LookupSim(sm, a, b) ==
    IF a \in DOMAIN sm /\ b \in DOMAIN sm[a] THEN sm[a][b]
    ELSE IF b \in DOMAIN sm /\ a \in DOMAIN sm[b] THEN sm[b][a]
    ELSE 0

\* s > THRESHOLD
PassesThreshold(s) == s > THRESHOLD

\* A scan that takes the last cluster that fits instead of the first: the variant
\* the first-match rule of local clustering is tested against.
LastFit(clusters, id, sm) ==
    LET fits == {c \in 1..Len(clusters) :
                    \A other \in clusters[c] : PassesThreshold(LookupSim(sm, id, other))}
    IN  IF fits = {} THEN 0 ELSE CHOOSE c \in fits : \A d \in fits : c >= d

\* The first cluster (lowest index) all of whose members pass against id; 0 if none.
FirstFit(clusters, id, sm) ==
    LET fits == {c \in 1..Len(clusters) :
                    \A other \in clusters[c] : PassesThreshold(LookupSim(sm, id, other))}
    IN  IF fits = {} THEN 0 ELSE CHOOSE c \in fits : \A d \in fits : c <= d

RECURSIVE ClusterChunkFrom(_, _, _, _)
ClusterChunkFrom(ids, k, clusters, sm) ==
    IF k > Len(ids) THEN clusters
    ELSE LET id == ids[k]
             c  == FirstFit(clusters, id, sm)
         IN  ClusterChunkFrom(ids, k + 1,
                 IF c # 0 THEN [clusters EXCEPT ![c] = @ \cup {id}]
                          ELSE Append(clusters, {id}),
                 sm)

cluster_chunk(ids, sm) == ClusterChunkFrom(ids, 1, <<>>, sm)

\* A scan that takes the last global cluster that fits instead of the first: the
\* variant the first-match rule of global merging is tested against.
LastMergeable(local, global, sm) ==
    LET fits == {g \in 1..Len(global) :
                    \A i \in local : \A j \in global[g] :
                        PassesThreshold(LookupSim(sm, i, j))}
    IN  IF fits = {} THEN 0 ELSE CHOOSE g \in fits : \A d \in fits : g >= d

\* The first global cluster g with every (i in local, j in g) passing; 0 if none.
FirstMergeable(local, global, sm) ==
    LET fits == {g \in 1..Len(global) :
                    \A i \in local : \A j \in global[g] :
                        PassesThreshold(LookupSim(sm, i, j))}
    IN  IF fits = {} THEN 0 ELSE CHOOSE g \in fits : \A d \in fits : g <= d

\* A merge that is content with one cross pair above the threshold (single
\* linkage): the variant the clique property is tested against.
merge_cluster_single_linkage(local, global, sm) ==
    LET fits == {g \in 1..Len(global) :
                    \E i \in local : \E j \in global[g] :
                        PassesThreshold(LookupSim(sm, i, j))}
    IN  IF fits # {} THEN [global EXCEPT ![CHOOSE g \in fits : \A d \in fits : g <= d]
                                            = @ \cup local]
                     ELSE Append(global, local)

\* A merge that extends the first fitting global cluster and goes on to
\* append the local cluster as well.
merge_cluster_no_return(local, global, sm) ==
    LET g == FirstMergeable(local, global, sm)
    IN  IF g # 0 THEN Append([global EXCEPT ![g] = @ \cup local], local)
                 ELSE Append(global, local)

merge_cluster(local, global, sm) ==
    LET g == FirstMergeable(local, global, sm)
    IN  IF g # 0 THEN [global EXCEPT ![g] = @ \cup local]
                 ELSE Append(global, local)

\* all_ids.chunks(chunk_size)
Chunks(ids, size) ==
    LET n == (Len(ids) + size - 1) \div size
    IN  [k \in 1..n |->
            SubSeq(ids, (k - 1) * size + 1,
                   IF k * size < Len(ids) THEN k * size ELSE Len(ids))]

Init1 ==
    /\ sim_map \in SimMaps
    /\ all_ids \in Perms(DOMAIN sim_map)
    /\ chunk_size \in 1..MaxIds
    /\ pc1 = "local"
    /\ all_local_clusters = <<>>
    /\ lc_idx = 1
    /\ global_clusters = <<>>

\* chunks.par_iter().map(cluster_chunk).collect(), then flatten
LocalClustering ==
    /\ pc1 = "local"
    /\ LET chunks    == Chunks(all_ids, chunk_size)
           local_vec == [k \in 1..Len(chunks) |-> cluster_chunk(chunks[k], sim_map)]
       IN  all_local_clusters' = Flatten(local_vec)
    /\ pc1' = "merge"
    /\ UNCHANGED <<sim_map, all_ids, chunk_size, lc_idx, global_clusters>>
    /\ UNCHANGED others1

\* one iteration of: for lc in all_local_clusters { merge_cluster(lc, ...) }
MergeNext ==
    /\ pc1 = "merge"
    /\ lc_idx <= Len(all_local_clusters)
    /\ global_clusters' = merge_cluster(all_local_clusters[lc_idx], global_clusters, sim_map)
    /\ lc_idx' = lc_idx + 1
    /\ UNCHANGED <<sim_map, all_ids, chunk_size, pc1, all_local_clusters>>
    /\ UNCHANGED others1

\* the loop is over: global_clusters is written out
SaveClusters ==
    /\ pc1 = "merge"
    /\ lc_idx > Len(all_local_clusters)
    /\ pc1' = "done"
    /\ UNCHANGED <<sim_map, all_ids, chunk_size, all_local_clusters, lc_idx, global_clusters>>
    /\ UNCHANGED others1

Next1 == LocalClustering \/ MergeNext \/ SaveClusters

----------------------------------------------------------------------------
(* shared: PointExplorer<T, D>, src/shared/src/point_explorer.rs.           *)
(* point_vector_map is an IndexMap<Uuid, [T; D]>: a sequence of entries in  *)
(* insertion order whose keys are pairwise distinct.                        *)

Dim == 2

MaxPoints == 3
PointIds == 1..MaxPoints

MaxExtend == 2

\* tests::make_unit_vector(dim, pos)
make_unit_vector(dim, pos) == [k \in 1..dim |-> IF k = pos + 1 THEN 1 ELSE 0]

\* Vectors a caller hands in: unit vectors of length D, and one of length D - 1.
GoodVectors == {make_unit_vector(Dim, pos) : pos \in 0..(Dim - 1)}
BadVectors == {[k \in 1..(Dim - 1) |-> 1]}
InputVectors == GoodVectors \cup BadVectors

\* Position (1-based) of key id in the entries, 0 when absent.
Position(m, id) ==
    LET at == {k \in 1..Len(m) : m[k].id = id}
    IN  IF at = {} THEN 0 ELSE CHOOSE k \in at : \A j \in at : k <= j

\* An insert that appends without looking for the key: the variant the index
\* bijection is tested against.
IndexMapAppend(m, id, arr) == Append(m, [id |-> id, vec |-> arr])

\* An insert that moves an existing key to the end: the variant the frame
\* effect of insert is tested against.
IndexMapInsertLast(m, id, arr) ==
    LET k == Position(m, id)
    IN  Append(IF k = 0 THEN m
               ELSE [j \in 1..(Len(m) - 1) |-> IF j < k THEN m[j] ELSE m[j + 1]],
               [id |-> id, vec |-> arr])

\* IndexMap::swap_remove, where the last entry takes the place of the deleted
\* one: the variant the frame effect of remove is tested against.
IndexMapSwapRemove(m, id) ==
    LET k == Position(m, id)
    IN  IF k = 0 THEN m
        ELSE [j \in 1..(Len(m) - 1) |-> IF j = k THEN m[Len(m)] ELSE m[j]]

\* IndexMap::insert: an existing key keeps its place and gets the new value; a new
\* key is appended.
IndexMapInsert(m, id, arr) ==
    LET k == Position(m, id)
    IN  IF k # 0 THEN [m EXCEPT ![k] = [id |-> id, vec |-> arr]]
                 ELSE Append(m, [id |-> id, vec |-> arr])

\* IndexMap::shift_remove: the entry is deleted and the later ones move up by one.
IndexMapShiftRemove(m, id) ==
    LET k == Position(m, id)
    IN  IF k = 0 THEN m
        ELSE [j \in 1..(Len(m) - 1) |-> IF j < k THEN m[j] ELSE m[j + 1]]

len(m) == Len(m)

contains(m, id) == Position(m, id) # 0

get_vector(m, id) ==
    IF Position(m, id) # 0 THEN Some(m[Position(m, id)].vec) ELSE None

\* point_vector_map.get_index(index).map(|(id, _)| id)
index2uuid(m, index) ==
    IF index < Len(m) THEN Some(m[index + 1].id) ELSE None

\* point_vector_map.get_full(point_id).map(|(idx, _, _)| idx)
uuid2index(m, id) ==
    IF Position(m, id) # 0 THEN Some(Position(m, id) - 1) ELSE None

\* The items of an extend call that are inserted before the first one whose slice
\* has the wrong length (try_into().expect(..) panics there).
RECURSIVE ExtendFrom(_, _, _)
ExtendFrom(m, items, k) ==
    IF k > Len(items) \/ Len(items[k].vec) # Dim THEN m
    ELSE ExtendFrom(IndexMapInsert(m, items[k].id, items[k].vec), items, k + 1)

\* Batches handed to extend.  Nothing after the first wrong-length item is ever
\* read, so such an item is drawn as the last one of its batch only.
PointItems(vecs) == [id : PointIds, vec : vecs]

ExtendItems ==
    UNION {[1..n -> PointItems(GoodVectors)] : n \in 0..MaxExtend}
    \cup {Append(good, bad) :
             good \in UNION {[1..n -> PointItems(GoodVectors)] : n \in 0..(MaxExtend - 1)},
             bad \in PointItems(BadVectors)}

\* What the last call was: its name and arguments, and where its id stood before.
OpRecord(name, id, vec, m) ==
    [name |-> name, id |-> id, vec |-> vec, old_index |-> uuid2index(m, id)]

InitPE ==
    /\ point_vector_map = <<>>
    /\ pe_op = OpRecord("new", 0, <<>>, <<>>)
    /\ pe_ret = None
    /\ pe_panicked = FALSE

insert(id, vec_like) ==
    /\ ~pe_panicked
    /\ pe_op' = OpRecord("insert", id, vec_like, point_vector_map)
    /\ pe_ret' = None
    /\ IF Len(vec_like) # Dim
       THEN /\ pe_panicked' = TRUE
            /\ UNCHANGED point_vector_map
       ELSE /\ point_vector_map' = IndexMapInsert(point_vector_map, id, vec_like)
            /\ UNCHANGED pe_panicked
    /\ UNCHANGED othersPE

extend(points) ==
    /\ ~pe_panicked
    /\ pe_op' = OpRecord("extend", 0, <<>>, point_vector_map)
    /\ pe_ret' = None
    /\ point_vector_map' = ExtendFrom(point_vector_map, points, 1)
    /\ pe_panicked' = (\E k \in 1..Len(points) : Len(points[k].vec) # Dim)
    /\ UNCHANGED othersPE

remove(id) ==
    /\ ~pe_panicked
    /\ pe_op' = OpRecord("remove", id, <<>>, point_vector_map)
    /\ pe_ret' = get_vector(point_vector_map, id)
    /\ point_vector_map' = IndexMapShiftRemove(point_vector_map, id)
    /\ UNCHANGED pe_panicked
    /\ UNCHANGED othersPE

clear ==
    /\ ~pe_panicked
    /\ pe_op' = OpRecord("clear", 0, <<>>, point_vector_map)
    /\ pe_ret' = None
    /\ point_vector_map' = <<>>
    /\ UNCHANGED pe_panicked
    /\ UNCHANGED othersPE

InsertAny == \E id \in PointIds, v \in InputVectors : insert(id, v)
ExtendAny == \E points \in ExtendItems : extend(points)
RemoveAny == \E id \in PointIds : remove(id)

NextPE == InsertAny \/ ExtendAny \/ RemoveAny \/ clear

----------------------------------------------------------------------------
(* shared: PointExplorer side tables and persistence,                       *)
(* src/shared/src/point_explorer.rs.  An explorer is built (insert, remove, *)
(* load_metadata, load_metadata_ext, load_points_uri_prefix), queried       *)
(* (get_cosine_sim), saved, and read back with load.                        *)

MaxStored == 2
StoredIds == 1..MaxStored

\* common_cosine_sim_f32: dot / (na * nb), in thousandths.
ISqrt(n) == CHOOSE r \in 0..n : r * r <= n /\ (r + 1) * (r + 1) > n

Dot(a, b) ==
    LET RECURSIVE sum(_)
        sum(k) == IF k = 0 THEN 0 ELSE a[k] * b[k] + sum(k - 1)
    IN  sum(Len(a))

cosine_sim(a, b) == (1000 * Dot(a, b)) \div (ISqrt(Dot(a, a)) * ISqrt(Dot(b, b)))

PointNotFound(id) == [err |-> "PointNotFound", of |-> id]
PathNotFound(path) == [err |-> "PathNotFound", of |-> path]

\* A get_cosine_sim that answers 0.0 for an absent point: the variant the
\* PointNotFound contract is tested against.
get_cosine_sim_or_zero(m, id_a, id_b) ==
    IF get_vector(m, id_a) = None \/ get_vector(m, id_b) = None
    THEN [ok |-> 0]
    ELSE [ok |-> cosine_sim(get_vector(m, id_a)[1], get_vector(m, id_b)[1])]

\* Ok(sim) or Err(PointNotFound(id)); the first lookup that fails decides.
get_cosine_sim(m, id_a, id_b) ==
    IF get_vector(m, id_a) = None THEN PointNotFound(id_a)
    ELSE IF get_vector(m, id_b) = None THEN PointNotFound(id_b)
    ELSE [ok |-> cosine_sim(get_vector(m, id_a)[1], get_vector(m, id_b)[1])]

\* The pickle files on disk: a metadata table and an ext table, each with an
\* entry for id 1 only, and no file at MissingPath.
MetadataPath == "metadata.pkl"
MetadataExtPath == "metadata_ext.pkl"
MissingPath == "missing.pkl"

MetadataFile == [id \in {1} |-> [id |-> id, size |-> Some(1), categories |-> Some(<<"a">>)]]
MetadataExtFile == [id \in {1} |-> [file_path |-> "1.gif", ext |-> "gif"]]

\* Url::parse(v) succeeds with a base URL for these strings.
AbsoluteUrls == {"https://example.com/resources/"}
PrefixStrings == AbsoluteUrls \cup {"/path/to/resources/"}

\* PointUri::Url(url) or PointUri::Path(PathBuf::from(v))
PointUriOf(v) == IF v \in AbsoluteUrls THEN [tag |-> "Url", value |-> v]
                                       ELSE [tag |-> "Path", value |-> v]

\* The prefix maps handed to load_points_uri_prefix: one name, one prefix.
PrefixName == "img"
PrefixMaps == {[k \in {PrefixName} |-> v] : v \in PrefixStrings}

\* PointExplorer::default()
NewExplorer ==
    [point_vector_map |-> <<>>,
     point_uri_prefix |-> None,
     point_uri_prefix_map |-> None,
     point_metadata |-> None,
     point_metadata_path |-> None,
     point_metadata_ext |-> None,
     point_metadata_ext_path |-> None]

\* self.point_metadata.as_ref()?.get(point_id)
get_point_metadata(e, id) ==
    IF e.point_metadata = None THEN None
    ELSE IF id \in DOMAIN e.point_metadata[1] THEN Some(e.point_metadata[1][id])
    ELSE None

\* base.join("{id}.{ext}") for a URL, base.push("{id}.{ext}") for a path
get_point_uri(e, pm_prefix, id) ==
    IF e.point_uri_prefix_map = None THEN None
    ELSE IF pm_prefix \notin DOMAIN e.point_uri_prefix_map[1] THEN None
    ELSE IF e.point_metadata_ext = None THEN None
    ELSE IF id \notin DOMAIN e.point_metadata_ext[1] THEN None
    ELSE Some([base |-> e.point_uri_prefix_map[1][pm_prefix],
               filename |-> <<id, e.point_metadata_ext[1][id].ext>>])

\* bincode::serde::encode_to_vec(self): the fields that are not #[serde(skip)],
\* in declaration order; the IndexMap as the sequence of its (key, value) pairs,
\* a PointUri as its variant tag and text.
Encode(e) ==
    [point_vector_map |-> [k \in 1..Len(e.point_vector_map) |->
                              <<e.point_vector_map[k].id, e.point_vector_map[k].vec>>],
     point_uri_prefix_map |-> e.point_uri_prefix_map,
     point_metadata_path |-> e.point_metadata_path,
     point_metadata_ext_path |-> e.point_metadata_ext_path]

\* Deserialize of the IndexMap: the pairs are inserted one after the other.
RECURSIVE DecodeVectorMap(_, _, _)
DecodeVectorMap(m, pairs, k) ==
    IF k > Len(pairs) THEN m
    ELSE DecodeVectorMap(IndexMapInsert(m, pairs[k][1], pairs[k][2]), pairs, k + 1)

\* bincode::serde::decode_from_slice: a #[serde(skip)] field gets its Default.
Decode(data) ==
    [point_vector_map |-> DecodeVectorMap(<<>>, data.point_vector_map, 1),
     point_uri_prefix |-> None,
     point_uri_prefix_map |-> data.point_uri_prefix_map,
     point_metadata |-> None,
     point_metadata_path |-> data.point_metadata_path,
     point_metadata_ext |-> None,
     point_metadata_ext_path |-> data.point_metadata_ext_path]

Call(name, args) == [name |-> name, args |-> args]

InitStore ==
    /\ explorer = NewExplorer
    /\ disk = None
    /\ loaded = None
    /\ pcS = "build"
    /\ st_op = Call("new", <<>>)
    /\ st_ret = None

StoreInsert(id, vec_like) ==
    /\ pcS = "build"
    /\ explorer' = [explorer EXCEPT
                       !.point_vector_map = IndexMapInsert(@, id, vec_like)]
    /\ st_op' = Call("insert", <<>>)
    /\ st_ret' = None
    /\ UNCHANGED <<disk, loaded, pcS>>
    /\ UNCHANGED othersS

StoreRemove(id) ==
    /\ pcS = "build"
    /\ explorer' = [explorer EXCEPT !.point_vector_map = IndexMapShiftRemove(@, id)]
    /\ st_op' = Call("remove", <<>>)
    /\ st_ret' = None
    /\ UNCHANGED <<disk, loaded, pcS>>
    /\ UNCHANGED othersS

load_metadata(path) ==
    /\ pcS = "build"
    /\ st_op' = Call("load_metadata", <<path>>)
    /\ IF path # MetadataPath
       THEN /\ st_ret' = PathNotFound(path)
            /\ UNCHANGED explorer
       ELSE /\ st_ret' = [ok |-> <<>>]
            /\ explorer' = [explorer EXCEPT !.point_metadata = Some(MetadataFile),
                                            !.point_metadata_path = Some(path)]
    /\ UNCHANGED <<disk, loaded, pcS>>
    /\ UNCHANGED othersS

load_metadata_ext(path) ==
    /\ pcS = "build"
    /\ st_op' = Call("load_metadata_ext", <<path>>)
    /\ IF path # MetadataExtPath
       THEN /\ st_ret' = PathNotFound(path)
            /\ UNCHANGED explorer
       ELSE /\ st_ret' = [ok |-> <<>>]
            /\ explorer' = [explorer EXCEPT !.point_metadata_ext = Some(MetadataExtFile),
                                            !.point_metadata_ext_path = Some(path)]
    /\ UNCHANGED <<disk, loaded, pcS>>
    /\ UNCHANGED othersS

load_points_uri_prefix(prefix) ==
    /\ pcS = "build"
    /\ st_op' = Call("load_points_uri_prefix", <<>>)
    /\ st_ret' = None
    /\ explorer' = [explorer EXCEPT
                       !.point_uri_prefix_map =
                           Some([k \in DOMAIN prefix |-> PointUriOf(prefix[k])])]
    /\ UNCHANGED <<disk, loaded, pcS>>
    /\ UNCHANGED othersS

GetCosineSim(id_a, id_b) ==
    /\ pcS = "build"
    /\ st_op' = Call("get_cosine_sim", <<id_a, id_b>>)
    /\ st_ret' = get_cosine_sim(explorer.point_vector_map, id_a, id_b)
    /\ UNCHANGED <<explorer, disk, loaded, pcS>>
    /\ UNCHANGED othersS

save ==
    /\ pcS = "build"
    /\ disk' = Some(Encode(explorer))
    /\ pcS' = "saved"
    /\ st_op' = Call("save", <<>>)
    /\ st_ret' = [ok |-> <<>>]
    /\ UNCHANGED <<explorer, loaded>>
    /\ UNCHANGED othersS

\* load of the path save wrote to; before any save there is no file.
load ==
    /\ pcS \in {"build", "saved"}
    /\ st_op' = Call("load", <<>>)
    /\ IF disk = None
       THEN /\ st_ret' = PathNotFound("explorer.bin")
            /\ UNCHANGED <<loaded, pcS>>
       ELSE /\ st_ret' = [ok |-> <<>>]
            /\ loaded' = Some(Decode(disk[1]))
            /\ pcS' = "loaded"
    /\ UNCHANGED <<explorer, disk>>
    /\ UNCHANGED othersS

StoreInsertAny == \E id \in StoredIds, v \in GoodVectors : StoreInsert(id, v)
StoreRemoveAny == \E id \in StoredIds : StoreRemove(id)
LoadMetadataAny == \E path \in {MetadataPath, MissingPath} : load_metadata(path)
LoadMetadataExtAny == \E path \in {MetadataExtPath, MissingPath} : load_metadata_ext(path)
LoadPointsUriPrefixAny == \E prefix \in PrefixMaps : load_points_uri_prefix(prefix)
GetCosineSimAny == \E id_a, id_b \in StoredIds : GetCosineSim(id_a, id_b)

NextStore ==
    \/ StoreInsertAny
    \/ StoreRemoveAny
    \/ LoadMetadataAny
    \/ LoadMetadataExtAny
    \/ LoadPointsUriPrefixAny
    \/ GetCosineSimAny
    \/ save
    \/ load

IdleStore ==
    /\ explorer = NewExplorer
    /\ disk = None
    /\ loaded = None
    /\ pcS = "idle"
    /\ st_op = Call("new", <<>>)
    /\ st_ret = None

----------------------------------------------------------------------------
(* stage9: cluster triage, src/stage9/src/main.rs.  One source cluster      *)
(* (cursor) is followed through triage, GIF refinement, CLIP re-clustering  *)
(* and the final classification.  A Vec is a sequence; a HashSet is a set   *)
(* whose iteration order is any ordering of it.                             *)

MaxCluster == 3

\* Byte sizes: two values, so that sizes tie and differ; 0 is what a lookup of
\* an id without metadata yields.
SizeValues == {1, 2}

TEXT_SIM_THRESHOLD == 900

IMAGE_SIM_THRESHOLD == 985

\* Text embeddings are points 1, 2, 3 on a line; the cosine similarity of two of
\* them falls with their distance: equal 1.0, adjacent 0.95, two apart exactly
\* 0.9, farther 0.5.
TextVectors == {1, 2, 3}

cosine_sim_text(a, b) ==
    LET d == IF a < b THEN b - a ELSE a - b
    IN  CASE d = 0 -> 1000
          [] d = 1 -> 950
          [] d = 2 -> 900
          [] OTHER -> 500

\* (NekoPoint, NekoPointExt) as far as triage reads it: text_info (None or the
\* text vector), size (set from the object listing) and the file extension.
PointMetadata ==
    [text_info : {None} \cup {Some(t) : t \in TextVectors},
     size : SizeValues,
     ext : {"gif", "jpg"}]

\* points_metadata.get(id).map(|(pt, _)| pt.text_info.is_some()).unwrap_or(false)
has_text_info(md, id) == id \in DOMAIN md /\ md[id].text_info # None

\* points_metadata.get(id).and_then(|(pt, _)| pt.size).unwrap_or(0)
size_or_zero(md, id) == IF id \in DOMAIN md THEN md[id].size ELSE 0

\* points_metadata.get(id).map(|(_, ex)| ex.ext() == "gif").unwrap_or(false)
is_gif(md, id) == id \in DOMAIN md /\ md[id].ext = "gif"

\* cosine_sim(vec_i, vec_j) > TEXT_SIM_THRESHOLD
TextSimilar(md, a, b) ==
    cosine_sim_text(md[a].text_info[1], md[b].text_info[1]) > TEXT_SIM_THRESHOLD

\* Iterator::max_by_key over a sequence: the index of the last element whose key
\* is maximal.
MaxByKeyIndex(keys) ==
    CHOOSE k \in 1..Len(keys) :
        /\ \A j \in 1..Len(keys) : keys[j] <= keys[k]
        /\ \A j \in (k + 1)..Len(keys) : keys[j] < keys[k]

\* cluster.iter().take(max_idx).chain(cluster.iter().skip(max_idx + 1))
WithoutIndex(seq, k) ==
    [j \in 1..(Len(seq) - 1) |-> IF j < k THEN seq[j] ELSE seq[j + 1]]

\* Option<Vec<_>> of a sequence that is None when nothing was pushed.
SomeIfNonEmpty(seq) == IF seq = <<>> THEN None ELSE Some(seq)

\* The ids of an Option<Vec<id>>.
OptIds(opt) == IF opt = None THEN {} ELSE Range(opt[1])

\* The id of an Option<id>.
OptId(opt) == IF opt = None THEN {} ELSE {opt[1]}

RECURSIVE TextClustersFrom(_, _, _, _)
TextClustersFrom(pairs, k, clusters, md) ==
    IF k > Len(pairs) THEN clusters
    ELSE LET id   == pairs[k]
             fits == {c \in 1..Len(clusters) :
                         \A j \in 1..Len(clusters[c]) : TextSimilar(md, id, clusters[c][j])}
             c    == IF fits = {} THEN 0 ELSE CHOOSE x \in fits : \A y \in fits : x <= y
         IN  TextClustersFrom(pairs, k + 1,
                 IF c # 0 THEN [clusters EXCEPT ![c] = Append(@, id)]
                          ELSE Append(clusters, <<id>>),
                 md)

\* A text split that never joins two ids: the variant the early-exit condition
\* is tested against.
find_text_singletons(text_points, md) ==
    LET pairs == SelectSeq(text_points, LAMBDA id : has_text_info(md, id))
    IN  [k \in 1..Len(pairs) |-> <<pairs[k]>>]

find_text_anomalies_clusters(text_points, md) ==
    TextClustersFrom(SelectSeq(text_points, LAMBDA id : has_text_info(md, id)),
                     1, <<>>, md)

\* A promotion of the first member of each text cluster, whatever its size: the
\* variant the largest-member rule is tested against.
TextAnomaliesFirst(clusters, md) == [c \in 1..Len(clusters) |-> clusters[c][1]]

\* The largest member of each text cluster, in cluster order (lines 121-143).
TextAnomalies(clusters, md) ==
    [c \in 1..Len(clusters) |->
        clusters[c][MaxByKeyIndex([j \in 1..Len(clusters[c]) |->
                                      size_or_zero(md, clusters[c][j])])]]

\* A survivor selection that sends a lone GIF to GIF triage like any other GIF
\* set: the variant the survivor-selection rule is tested against.
GifSplitWithoutOrphan(gif, non_gif_it, md) ==
    IF gif # {}
    THEN <<Some(gif), None>>
    ELSE IF non_gif_it = <<>>
         THEN <<None, None>>
         ELSE <<None,
                Some(non_gif_it[MaxByKeyIndex([j \in 1..Len(non_gif_it) |->
                                                  size_or_zero(md, non_gif_it[j])])])>>

\* gif_spilt (lines 189-220) for the GIF set, given the iteration order non_gif_it
\* of the non-GIF set: <<to_triage_gifs as a set or None, kept_non_gif>>.
GifSplit(gif, non_gif_it, md) ==
    IF gif # {}
    THEN IF Cardinality(gif) = 1
         THEN <<None, Some(CHOOSE id \in gif : TRUE)>>
         ELSE <<Some(gif), None>>
    ELSE IF non_gif_it = <<>>
         THEN <<None, None>>
         ELSE <<None,
                Some(non_gif_it[MaxByKeyIndex([j \in 1..Len(non_gif_it) |->
                                                  size_or_zero(md, non_gif_it[j])])])>>

\* A delete set that forgets to take the kept id out: the variant the triage
\* partition is tested against.
DeleteSetWithSurvivor(non_text_anomalies_set, gif_spilt) ==
    IF gif_spilt[1] = None THEN non_text_anomalies_set
                           ELSE non_text_anomalies_set \ gif_spilt[1][1]

\* delete_set (lines 226-237)
DeleteSet(non_text_anomalies_set, gif_spilt) ==
    (IF gif_spilt[1] = None THEN non_text_anomalies_set
                            ELSE non_text_anomalies_set \ gif_spilt[1][1])
        \ OptId(gif_spilt[2])

NoTriage ==
    [kept_text_anomalies |-> None, to_triage_gifs |-> None,
     kept_non_gif |-> None, other_delete |-> None, path |-> "none"]

\* Triage never looks at an id itself, only at its metadata, so the clusters
\* are taken up to a renaming of their ids: ids without metadata first, the
\* others ordered by text vector, size and extension.
MetadataRank(md, id) ==
    IF id \notin DOMAIN md THEN 0
    ELSE 1 + (IF md[id].ext = "gif" THEN 1 ELSE 0)
           + 2 * md[id].size
           + 2 * (Cardinality(SizeValues) + 1) * (IF md[id].text_info = None THEN 0 ELSE md[id].text_info[1])

Init9 ==
    /\ cursor \in {1..n : n \in 0..MaxCluster}
    /\ points_metadata \in UNION {[D -> PointMetadata] : D \in SUBSET cursor}
    /\ \A a, b \in cursor :
           a < b => MetadataRank(points_metadata, a) <= MetadataRank(points_metadata, b)
    /\ pc9 = "extract"
    /\ extract_clusters_res = NoTriage
    /\ refine_gif_res = None
    /\ clip_req = None
    /\ clip_sim = <<>>
    /\ clip_res = None
    /\ final_classification = None

\* extract_clusters for one cluster.  The iteration orders of cursor, of the
\* non-GIF set and of the sets collected into the returned vectors are free.
ExtractClusters ==
    /\ pc9 = "extract"
    /\ \E only_text_uuids \in Perms({id \in cursor : has_text_info(points_metadata, id)}) :
        LET md               == points_metadata
            text_points      == SomeIfNonEmpty(only_text_uuids)
            text_points_size == Len(only_text_uuids)
            text_anomalies   ==
                IF text_points = None THEN None
                ELSE Some(TextAnomalies(
                         find_text_anomalies_clusters(text_points[1], md), md))
            non_text_anomalies_set == cursor \ OptIds(text_anomalies)
        IN  IF text_points_size = Cardinality(cursor) /\ text_points = text_anomalies
            THEN \E rest \in Perms(non_text_anomalies_set) :
                    extract_clusters_res' =
                        [kept_text_anomalies |-> text_anomalies,
                         to_triage_gifs |-> None,
                         kept_non_gif |-> None,
                         other_delete |-> Some(rest),
                         path |-> "early"]
            ELSE LET gif     == {id \in non_text_anomalies_set : is_gif(md, id)}
                     non_gif == non_text_anomalies_set \ gif
                 IN  \E non_gif_it \in Perms(non_gif) :
                        LET gif_spilt  == GifSplit(gif, non_gif_it, md)
                            delete_set == DeleteSet(non_text_anomalies_set, gif_spilt)
                        IN  \E gifs \in Perms(IF gif_spilt[1] = None THEN {}
                                                                      ELSE gif_spilt[1][1]),
                               dels \in Perms(delete_set) :
                                extract_clusters_res' =
                                    [kept_text_anomalies |-> text_anomalies,
                                     to_triage_gifs |->
                                         IF gif_spilt[1] = None THEN None ELSE Some(gifs),
                                     kept_non_gif |-> gif_spilt[2],
                                     other_delete |-> SomeIfNonEmpty(dels),
                                     path |-> "normal"]
    /\ pc9' = "gif"
    /\ UNCHANGED <<cursor, points_metadata, refine_gif_res, clip_req, clip_sim,
                   clip_res, final_classification>>
    /\ UNCHANGED others9

----------------------------------------------------------------------------
(* stage9 GIF refinement, src/stage9/src/gif_worker.rs.  A downloaded GIF   *)
(* is absent (File::open fails), undecodable, or a list of frames; a frame  *)
(* is represented by the hash distance between it and the first frame.      *)

Ok(v) == [ok |-> TRUE, val |-> v]

Err(e) == [ok |-> FALSE, err |-> e]

unwrap_or(res, default) == IF res.ok THEN res.val ELSE default

FrameDists == {<<0>>, <<0, 4>>, <<0, 5>>}

GifFiles ==
    {[status |-> "absent", dists |-> <<>>], [status |-> "undecodable", dists |-> <<>>]}
        \cup {[status |-> "ok", dists |-> d] : d \in FrameDists}

\* A frame test that lets a hash distance of exactly 5 pass as identical: the
\* variant the static-GIF filter is tested against.
judge_gif_frame_upto5(file) ==
    CASE file.status = "absent" -> Err("InternalIOError")
      [] file.status = "undecodable" -> Err("InternalImageError")
      [] OTHER ->
            IF Len(file.dists) <= 1 THEN Ok(TRUE)
            ELSE Ok(\A k \in 2..Len(file.dists) : file.dists[k] <= 5)

judge_gif_frame(file) ==
    CASE file.status = "absent" -> Err("InternalIOError")
      [] file.status = "undecodable" -> Err("InternalImageError")
      [] OTHER ->
            IF Len(file.dists) <= 1 THEN Ok(TRUE)
            ELSE Ok(\A k \in 2..Len(file.dists) : file.dists[k] < 5)

\* Anchor indices with the third quarter taken as three times the first.
SelectedIdxsTripleQuarter(total) ==
    IF total < 5 THEN 0..(total - 1)
    ELSE {0, total \div 4, total \div 2, 3 * (total \div 4), total - 1}

\* selected_idxs of process_single, as a set of 0-based frame indices, for a
\* GIF of total frames that passed the poor-frame test.
SelectedIdxs(total) ==
    IF total < 5 THEN 0..(total - 1)
    ELSE {0, total \div 4, total \div 2, (total * 3) \div 4, total - 1}

\* GifWorkerError::PoorFrames(n)
PoorFrames(n) == [ok |-> FALSE, err |-> "PoorFrames", frames |-> n]

\* A frame extraction that reports a decoding failure as a hashing failure.
process_single_hash_error(file, allow_poor_frame) ==
    CASE file.status = "absent" -> Err("InternalIOError")
      [] file.status = "undecodable" -> Err("InternalHashError")
      [] OTHER ->
            LET total == Len(file.dists)
            IN  IF total < 5 /\ ~allow_poor_frame THEN PoorFrames(total)
                ELSE Ok(SelectSeq([k \in 1..total |-> k - 1],
                                  LAMBDA i : i \in SelectedIdxs(total)))

\* A frame extraction that is strict whatever the caller's switch.
process_single_strict(file, allow_poor_frame) ==
    CASE file.status = "absent" -> Err("InternalIOError")
      [] file.status = "undecodable" -> Err("InternalImageError")
      [] OTHER ->
            LET total == Len(file.dists)
            IN  IF total < 5 THEN PoorFrames(total)
                ELSE Ok(SelectSeq([k \in 1..total |-> k - 1],
                                  LAMBDA i : i \in SelectedIdxs(total)))

\* The picked frames are named by their 0-based indices, in frame order.
process_single(file, allow_poor_frame) ==
    CASE file.status = "absent" -> Err("InternalIOError")
      [] file.status = "undecodable" -> Err("InternalImageError")
      [] OTHER ->
            LET total == Len(file.dists)
            IN  IF total < 5 /\ ~allow_poor_frame THEN PoorFrames(total)
                ELSE Ok(SelectSeq([k \in 1..total |-> k - 1],
                                  LAMBDA i : i \in SelectedIdxs(total)))

\* process_pair: gifs is the Vec<TriageGif> of one cluster, files the content
\* found at each GIF's path.
process_pair(gifs, files) ==
    LET indices == [k \in 1..Len(gifs) |-> k]
        is_same == [k \in 1..Len(gifs) |->
                       unwrap_or(judge_gif_frame(files[gifs[k].uuid]), FALSE)]
        single  == [k \in 1..Len(gifs) |-> process_single(files[gifs[k].uuid], TRUE)]
        same    == SelectSeq(indices, LAMBDA k : is_same[k])
        rest    == SelectSeq(indices, LAMBDA k : ~is_same[k])
        invalid == SelectSeq(rest, LAMBDA k :
                       /\ ~single[k].ok
                       /\ single[k].err \in {"InternalImageError", "InternalIOError"})
        prepare == SelectSeq(rest, LAMBDA k : single[k].ok)
    IN  [invalid_gif_id |->
             IF invalid = <<>> THEN None
             ELSE Some(<<[k \in 1..Len(invalid) |-> gifs[invalid[k]].uuid],
                         [k \in 1..Len(invalid) |-> single[invalid[k]].err]>>),
         discard_same_frame_gif_id |->
             IF same = <<>> THEN None
             ELSE Some([k \in 1..Len(same) |-> gifs[same[k]].uuid]),
         prepare_clip_gif_pair |->
             IF prepare = <<>> THEN None
             ELSE Some([k \in 1..Len(prepare) |->
                           [id |-> gifs[prepare[k]].uuid, size |-> gifs[prepare[k]].size,
                            frame |-> single[prepare[k]].val]])]

\* triage_req of main: a TriageGif per id sent to GIF triage.
TriageReq(uuids, md) ==
    [k \in 1..Len(uuids) |-> [uuid |-> uuids[k], size |-> md[uuids[k]].size]]

\* GifWorker::process for the cluster: nothing when triage sent no GIFs.
RefineGifs ==
    /\ pc9 = "gif"
    /\ IF extract_clusters_res.to_triage_gifs = None
       THEN refine_gif_res' = None
       ELSE LET uuids == extract_clusters_res.to_triage_gifs[1]
            IN  \E files \in [Range(uuids) -> GifFiles] :
                    refine_gif_res' =
                        Some(process_pair(TriageReq(uuids, points_metadata), files))
    /\ pc9' = "clip"
    /\ UNCHANGED <<cursor, points_metadata, extract_clusters_res, clip_req, clip_sim,
                   clip_res, final_classification>>
    /\ UNCHANGED others9

----------------------------------------------------------------------------
(* stage9 GifWorker on its own: process over one cluster's GIFs, with the    *)
(* files found at their paths kept beside the request.                      *)

MaxGifs == 3

\* Files as in GifFiles, and two more decoded ones: no frame at all, and three
\* frames of which only the last is far from the first.
WorkerGifFiles ==
    GifFiles \cup {[status |-> "ok", dists |-> <<>>], [status |-> "ok", dists |-> <<0, 4, 5>>]}

InitGifWorker ==
    /\ gif_pair \in {[k \in 1..n |-> [uuid |-> k, size |-> 1]] : n \in 0..MaxGifs}
    /\ gif_files \in [{gif_pair[k].uuid : k \in 1..Len(gif_pair)} -> WorkerGifFiles]
    /\ results = None
    /\ pcG = "process"

\* gif_pair.as_ref().map(|p| self.process_pair(p)) for the one pair
process ==
    /\ pcG = "process"
    /\ results' = Some(process_pair(gif_pair, gif_files))
    /\ pcG' = "done"
    /\ UNCHANGED <<gif_pair, gif_files>>
    /\ UNCHANGED othersG

NextGifWorker == process

IdleGifWorker ==
    /\ gif_pair = <<>>
    /\ gif_files = <<>>
    /\ results = None
    /\ pcG = "idle"

----------------------------------------------------------------------------
(* stage9 CLIP re-clustering, src/stage9/src/clip_worker.rs, and the final  *)
(* classification of main.  The averaged, normalised embeddings of the      *)
(* prepared GIFs are represented by their pairwise cosine similarities.     *)

ImageSimValues == {IMAGE_SIM_THRESHOLD, IMAGE_SIM_THRESHOLD + 5}

ClipPairs(ids) == {p \in ids \X ids : p[1] < p[2]}

cosine_sim_clip(sims, a, b) ==
    IF a = b THEN 1000 ELSE IF a < b THEN sims[<<a, b>>] ELSE sims[<<b, a>>]

RECURSIVE GifClustersFrom(_, _, _, _)
GifClustersFrom(items, k, clusters, sims) ==
    IF k > Len(items) THEN clusters
    ELSE LET it   == items[k]
             fits == {c \in 1..Len(clusters) :
                         \A j \in 1..Len(clusters[c]) :
                             cosine_sim_clip(sims, it.id, clusters[c][j].id)
                                 > IMAGE_SIM_THRESHOLD}
             c    == IF fits = {} THEN 0 ELSE CHOOSE x \in fits : \A y \in fits : x <= y
         IN  GifClustersFrom(items, k + 1,
                 IF c # 0 THEN [clusters EXCEPT ![c] = Append(@, it)]
                          ELSE Append(clusters, <<it>>),
                 sims)

find_gif_embedding_clusters(items, sims) == GifClustersFrom(items, 1, <<>>, sims)

AsTriageGif(clip) == [uuid |-> clip.id, size |-> clip.size]

\* The first clip of each cluster kept, whatever its size.
MaxClipsFirst(clusters) == [c \in 1..Len(clusters) |-> AsTriageGif(clusters[c][1])]

\* max_clips of get_images_embedding_adapted: the largest clip of each cluster.
MaxClips(clusters) ==
    [c \in 1..Len(clusters) |->
        AsTriageGif(clusters[c][MaxByKeyIndex([j \in 1..Len(clusters[c]) |->
                                                  clusters[c][j].size])])]

\* Clusters discarded whole, their largest clip included: the variant the final
\* classification's disjointness is tested against.
OtherClipsWithMax(clusters) ==
    Flatten([c \in 1..Len(clusters) |->
        [j \in 1..Len(clusters[c]) |-> AsTriageGif(clusters[c][j])]])

\* other_clips: every cluster without its largest clip, in cluster order.
OtherClips(clusters) ==
    Flatten([c \in 1..Len(clusters) |->
        LET rest == WithoutIndex(clusters[c],
                        MaxByKeyIndex([j \in 1..Len(clusters[c]) |-> clusters[c][j].size]))
        IN  [j \in 1..Len(rest) |-> AsTriageGif(rest[j])]])

\* The Some(Some(grp)) arm of get_images_embedding_adapted.
ClipGroup(grp, sims) ==
    LET clusters == find_gif_embedding_clusters(grp, sims)
    IN  [kept_gifs |-> Some(MaxClips(clusters)),
         discard_duplicate_gifs |-> Some(OtherClips(clusters))]

\* The uuids of an Option<Vec<TriageGif>>.
GifUuids(opt) == IF opt = None THEN None ELSE Some([k \in 1..Len(opt[1]) |-> opt[1][k].uuid])

\* inner_opt.as_ref().and_then(|pair| pair.<field>.map(uuids)).unwrap_or_default()
ClipGroupUuids(clip_stage_pair, field) ==
    IF clip_stage_pair = None THEN None
    ELSE IF clip_stage_pair[1] = None THEN Some(<<>>)
    ELSE LET ids == GifUuids(clip_stage_pair[1][1][field])
         IN  IF ids = None THEN Some(<<>>) ELSE ids

\* The FinalClassification of a cluster from what the three stages returned
\* for it (the final stage of main).
FinalClassificationOf(cluster_tuple, gif_stage_pair, clip_stage_pair) ==
    [kept_text_anomalies_group |-> cluster_tuple.kept_text_anomalies,
     triaged_gif_and_invalid_group |->
         IF gif_stage_pair = None THEN None ELSE gif_stage_pair[1].invalid_gif_id,
     triaged_gif_and_discard_same_frame_group |->
         IF gif_stage_pair = None THEN None
         ELSE gif_stage_pair[1].discard_same_frame_gif_id,
     triaged_gif_and_then_will_keep_group |->
         ClipGroupUuids(clip_stage_pair, "kept_gifs"),
     triaged_gif_and_then_will_delete_group |->
         ClipGroupUuids(clip_stage_pair, "discard_duplicate_gifs"),
     kept_non_gif |-> cluster_tuple.kept_non_gif,
     other_need_delete_group |-> cluster_tuple.other_delete]

\* The rest of main once the GIFs are refined: clip_req takes
\* prepare_clip_gif_pair out of refine_gif_res, the clip worker answers for the
\* group, and the final stage classifies the cluster.
ClipAndFinalStage ==
    /\ pc9 = "clip"
    /\ LET req == IF refine_gif_res = None THEN None
                  ELSE Some(refine_gif_res[1].prepare_clip_gif_pair)
       IN  /\ clip_req' = req
           /\ refine_gif_res' =
                  IF refine_gif_res = None THEN None
                  ELSE Some([refine_gif_res[1] EXCEPT !.prepare_clip_gif_pair = None])
           /\ IF req = None
              THEN clip_res' = None /\ clip_sim' = clip_sim
              ELSE IF req[1] = None
              THEN clip_res' = Some(None) /\ clip_sim' = clip_sim
              ELSE LET grp == req[1][1]
                   IN  \E sims \in [ClipPairs({grp[k].id : k \in 1..Len(grp)})
                                       -> ImageSimValues] :
                           /\ clip_sim' = sims
                           /\ clip_res' = Some(Some(ClipGroup(grp, sims)))
    /\ final_classification' =
           Some(FinalClassificationOf(extract_clusters_res, refine_gif_res', clip_res'))
    /\ pc9' = "done"
    /\ UNCHANGED <<cursor, points_metadata, extract_clusters_res>>
    /\ UNCHANGED others9

\* Any `?` between the GIF stage and the final stage (CLIP_MODEL_PATH unset, the
\* model not loading, a tensor error) ends main before anything is classified.
ClipStageFails ==
    /\ pc9 = "clip"
    /\ pc9' = "failed"
    /\ UNCHANGED <<cursor, points_metadata, extract_clusters_res, refine_gif_res,
                   clip_req, clip_sim, clip_res, final_classification>>
    /\ UNCHANGED others9

Next9 == ExtractClusters \/ RefineGifs \/ ClipAndFinalStage \/ ClipStageFails

Idle9 ==
    /\ cursor = {}
    /\ points_metadata = <<>>
    /\ pc9 = "idle"
    /\ extract_clusters_res = NoTriage
    /\ refine_gif_res = None
    /\ clip_req = None
    /\ clip_sim = <<>>
    /\ clip_res = None
    /\ final_classification = None

----------------------------------------------------------------------------
(* stage11: the planner of src/stage11/src/main.rs, for one item of          *)
(* final_classification.json.  A tag set collected into a Vec has no order   *)
(* of its own and is kept as the set of its tags.                            *)

MaxTaskIds == 3

CategoryLists == {<<"a">>, <<"b">>}

\* NekoPoint as far as the planner reads it: categories, None or a list.
PlannerMetadata == [categories : {None} \cup {Some(l) : l \in CategoryLists}]

\* metadata.get(uuid).and_then(|p| p.categories.as_ref())
categories_of(metadata, uuid) ==
    IF uuid \in DOMAIN metadata THEN metadata[uuid].categories ELSE None

into_keep_tags(uuid, tags_sets, metadata) ==
    IF categories_of(metadata, uuid) # None
    THEN Append(tags_sets, Range(categories_of(metadata, uuid)[1]))
    ELSE tags_sets

into_duplicate_tags(uuid, tags_set, metadata) ==
    IF categories_of(metadata, uuid) # None
    THEN tags_set \cup Range(categories_of(metadata, uuid)[1])
    ELSE tags_set

RECURSIVE KeepTagsFrom(_, _, _, _)
KeepTagsFrom(uuids, k, tags_sets, metadata) ==
    IF k > Len(uuids) THEN tags_sets
    ELSE KeepTagsFrom(uuids, k + 1, into_keep_tags(uuids[k], tags_sets, metadata), metadata)

RECURSIVE DuplicateTagsFrom(_, _, _, _)
DuplicateTagsFrom(uuids, k, tags_set, metadata) ==
    IF k > Len(uuids) THEN tags_set
    ELSE DuplicateTagsFrom(uuids, k + 1,
                           into_duplicate_tags(uuids[k], tags_set, metadata), metadata)

\* The uuids of an Option<Vec<Uuid>>, nothing for None.
OrEmpty(opt) == IF opt = None THEN <<>> ELSE opt[1]

\* keep_point_list: text anomalies, kept GIFs, the kept non-GIF, in this order.
KeepPointList(fc) ==
    OrEmpty(fc.kept_text_anomalies_group)
        \o OrEmpty(fc.triaged_gif_and_then_will_keep_group)
        \o fc.kept_non_gif

\* discard_point_list: invalid GIFs, static GIFs, duplicate GIFs, the rest.
DiscardPointList(fc) ==
    (IF fc.triaged_gif_and_invalid_group = None THEN <<>>
     ELSE fc.triaged_gif_and_invalid_group[1][1])
        \o OrEmpty(fc.triaged_gif_and_discard_same_frame_group)
        \o OrEmpty(fc.triaged_gif_and_then_will_delete_group)
        \o OrEmpty(fc.other_need_delete_group)

\* The keep tag sets as they are, the discard tags not transferred: the variant
\* the content of transfer_tag_list is tested against.
KeepTagListOnly(fc, metadata) == KeepTagsFrom(KeepPointList(fc), 1, <<>>, metadata)

\* transfer_tag_list: every keep tag set extended by the discard tag set.
TransferTagList(fc, metadata) ==
    LET keep_point_tags_set_list == KeepTagsFrom(KeepPointList(fc), 1, <<>>, metadata)
        discard_point_tags_set   == DuplicateTagsFrom(DiscardPointList(fc), 1, {}, metadata)
    IN  [k \in 1..Len(keep_point_tags_set_list) |->
            keep_point_tags_set_list[k] \cup discard_point_tags_set]

Groups ==
    {"kept_text_anomalies_group", "triaged_gif_and_invalid_group",
     "triaged_gif_and_discard_same_frame_group", "triaged_gif_and_then_will_keep_group",
     "triaged_gif_and_then_will_delete_group", "kept_non_gif", "other_need_delete_group"}

\* The FinalClassification that lists each id in the group it is assigned to.
ItemOf(n, group) ==
    LET ids(g) == SelectSeq([k \in 1..n |-> k], LAMBDA id : group[id] = g)
    IN  [kept_text_anomalies_group |-> SomeIfNonEmpty(ids("kept_text_anomalies_group")),
         triaged_gif_and_invalid_group |->
             IF ids("triaged_gif_and_invalid_group") = <<>> THEN None
             ELSE Some(<<ids("triaged_gif_and_invalid_group"),
                         [k \in 1..Len(ids("triaged_gif_and_invalid_group")) |->
                             "InternalImageError"]>>),
         triaged_gif_and_discard_same_frame_group |->
             SomeIfNonEmpty(ids("triaged_gif_and_discard_same_frame_group")),
         triaged_gif_and_then_will_keep_group |->
             SomeIfNonEmpty(ids("triaged_gif_and_then_will_keep_group")),
         triaged_gif_and_then_will_delete_group |->
             SomeIfNonEmpty(ids("triaged_gif_and_then_will_delete_group")),
         kept_non_gif |-> ids("kept_non_gif"),
         other_need_delete_group |-> SomeIfNonEmpty(ids("other_need_delete_group"))]

NoTask == [keep_point_list |-> <<>>, discard_point_list |-> <<>>, transfer_tag_list |-> <<>>]

Init11 ==
    /\ \E n \in 0..MaxTaskIds :
          /\ \E group \in [1..n -> Groups] :
                /\ Cardinality({id \in 1..n : group[id] = "kept_non_gif"}) <= 1
                /\ item = ItemOf(n, group)
          /\ points_metadata_ex \in UNION {[D -> PlannerMetadata] : D \in SUBSET (1..n)}
    /\ pc11 = "plan"
    /\ task = NoTask

\* The closure that plans one item: the three lists are built, then the
\* assert_eq either lets the ReSetPointTask through or panics.
PlanTask ==
    /\ pc11 = "plan"
    /\ task' = [keep_point_list |-> KeepPointList(item),
                discard_point_list |-> DiscardPointList(item),
                transfer_tag_list |-> TransferTagList(item, points_metadata_ex)]
    /\ pc11' = IF Len(task'.transfer_tag_list) = Len(task'.keep_point_list)
               THEN "planned" ELSE "panicked"
    /\ UNCHANGED <<item, points_metadata_ex>>
    /\ UNCHANGED others11

Next11 == PlanTask

Idle11 ==
    /\ item = <<>>
    /\ points_metadata_ex = <<>>
    /\ pc11 = "idle"
    /\ task = NoTask

----------------------------------------------------------------------------
(* stage9 GifWorker frame extraction on its own: process_single over one    *)
(* file, in permissive or in strict mode.                                   *)

MaxFrames == 8

\* Sequences of length n over S.
SeqsOfLen(S, n) == [1..n -> S]

\* The file at gif_path: absent, undecodable, or decoded into up to MaxFrames
\* frames, the first at distance 0 from itself, the others near it or far.
FrameFiles ==
    {[status |-> "absent", dists |-> <<>>], [status |-> "undecodable", dists |-> <<>>],
     [status |-> "ok", dists |-> <<>>]}
        \cup {[status |-> "ok", dists |-> <<0>> \o d] :
                 d \in UNION {SeqsOfLen({0, 5}, n) : n \in 0..(MaxFrames - 1)}}

InitFrames ==
    /\ gif_path \in FrameFiles
    /\ allow_poor \in BOOLEAN
    /\ frames_res = None
    /\ pcF = "extract"

\* self.process_single(gif_path, allow_poor_frame)
ExtractFrames ==
    /\ pcF = "extract"
    /\ frames_res' = Some(process_single(gif_path, allow_poor))
    /\ pcF' = "done"
    /\ UNCHANGED <<gif_path, allow_poor>>
    /\ UNCHANGED othersF

NextFrames == ExtractFrames

IdleFrames ==
    /\ gif_path = <<>>
    /\ allow_poor = FALSE
    /\ frames_res = None
    /\ pcF = "idle"

----------------------------------------------------------------------------
(* stage11 emitter, src/stage11/src/main.rs: set_reset_point_task runs the   *)
(* tasks through buffer_unordered(worker_num); a running task has issued    *)
(* all its operations and completes when all of them have answered.  The    *)
(* Qdrant collection is a table from point id to presence and categories.   *)

MaxTasks == 2

MaxWorkers == 2

\* The answers of Qdrant to one operation: success or one of two errors.
QdrantErrors == {"timeout", "not found"}

OpOutcomes == {"ok"} \cup QdrantErrors

\* The task of the k-th cluster, over the two ids 2k-1 and 2k: one kept and
\* one discarded, both kept, both discarded, or a single kept point.
TaskShapes(k) ==
    LET a == 2 * k - 1
        b == 2 * k
    IN  {[keep_point_list |-> <<a>>, discard_point_list |-> <<b>>,
          transfer_tag_list |-> <<<<"t">>>>],
         [keep_point_list |-> <<a, b>>, discard_point_list |-> <<>>,
          transfer_tag_list |-> <<<<"t">>, <<"t">>>>],
         [keep_point_list |-> <<>>, discard_point_list |-> <<a, b>>,
          transfer_tag_list |-> <<>>],
         [keep_point_list |-> <<a>>, discard_point_list |-> <<>>,
          transfer_tag_list |-> <<<<"t">>>>]}

TaskLists ==
    UNION {{ts \in [1..n -> UNION {TaskShapes(k) : k \in 1..n}] :
               \A k \in 1..n : ts[k] \in TaskShapes(k)} : n \in 0..MaxTasks}

\* The collection before the run: every point present, without categories.
InitialCollection == [id \in 1..(2 * MaxTasks) |-> [present |-> TRUE, categories |-> <<>>]]

\* The operations of a task: a set_payload for each (keep id, tags) of the zip,
\* then a delete_points for each discard id.
AtomicOps(t) ==
    LET n == IF Len(t.keep_point_list) < Len(t.transfer_tag_list)
             THEN Len(t.keep_point_list) ELSE Len(t.transfer_tag_list)
    IN  [k \in 1..n |-> [op |-> "set_payload", id |-> t.keep_point_list[k],
                         categories |-> t.transfer_tag_list[k]]]
        \o [k \in 1..Len(t.discard_point_list) |->
                [op |-> "delete_points", id |-> t.discard_point_list[k],
                 categories |-> <<>>]]

\* An emitter that issues the operations in a dry run as well.
OpsToIssueAlways(t, dry) == AtomicOps(t)

\* set_reset_point_task_atomic: nothing is issued in a dry run.
OpsToIssue(t, dry) == IF dry THEN <<>> ELSE AtomicOps(t)

\* The collection after the operations that succeeded.
RECURSIVE ApplyOps(_, _, _)
ApplyOps(coll, ops, res) ==
    IF ops = <<>> THEN coll
    ELSE LET o    == Head(ops)
             next == IF Head(res) # "ok" THEN coll
                     ELSE IF o.op = "set_payload"
                     THEN [coll EXCEPT ![o.id].categories = o.categories]
                     ELSE [coll EXCEPT ![o.id].present = FALSE]
         IN  ApplyOps(next, Tail(ops), Tail(res))

\* A drain that puts the failures of a task in front of the list.
DrainFailuresFront(failed, t, triage) ==
    IF triage = None THEN failed
    ELSE LET errs == SelectSeq(triage[1], LAMBDA r : r # "ok")
         IN  [k \in 1..Len(errs) |-> [task |-> t, error |-> errs[k]]] \o failed

\* A drain that looks at the answers of the deletes only.
DrainDeleteFailures(failed, t, triage) ==
    IF triage = None THEN failed
    ELSE LET dels == SubSeq(triage[1], Len(triage[1]) - Len(t.discard_point_list) + 1,
                            Len(triage[1]))
             errs == SelectSeq(dels, LAMBDA r : r # "ok")
         IN  failed \o [k \in 1..Len(errs) |-> [task |-> t, error |-> errs[k]]]

\* The body of the drain loop for one (task, triage) of the stream: a
\* FailedReSetPointTask is pushed for every Err of the task, in operation order.
DrainFailures(failed, t, triage) ==
    IF triage = None THEN failed
    ELSE LET errs == SelectSeq(triage[1], LAMBDA r : r # "ok")
         IN  failed \o [k \in 1..Len(errs) |-> [task |-> t, error |-> errs[k]]]

InitEmitter ==
    /\ all_tasks \in TaskLists
    /\ dry_run \in BOOLEAN
    /\ worker_num \in 1..MaxWorkers
    /\ stream_pos = 1
    /\ in_progress = {}
    /\ sent = <<>>
    /\ collection = InitialCollection
    /\ drained = <<>>
    /\ failed_tasks = <<>>
    /\ emit_ret = None
    /\ pcE = "emit"

\* buffer_unordered takes the next task of the iterator while fewer than
\* worker_num are in progress; the first poll of the task issues its operations.
StartTask ==
    /\ pcE = "emit"
    /\ stream_pos <= Len(all_tasks)
    /\ Cardinality(in_progress) < worker_num
    /\ in_progress' = in_progress \cup {stream_pos}
    /\ sent' = sent \o OpsToIssue(all_tasks[stream_pos], dry_run)
    /\ stream_pos' = stream_pos + 1
    /\ UNCHANGED <<all_tasks, dry_run, worker_num, collection, drained, failed_tasks,
                   emit_ret, pcE>>
    /\ UNCHANGED othersE

\* A task in progress completes: every operation has answered, the stream
\* yields (task, triage) and the drain loop takes it.
CompleteTask(i) ==
    /\ pcE = "emit"
    /\ i \in in_progress
    /\ LET ops == OpsToIssue(all_tasks[i], dry_run)
       IN  \E res \in [1..Len(ops) -> OpOutcomes] :
               LET triage == IF dry_run THEN None ELSE Some(res)
               IN  /\ collection' = ApplyOps(collection, ops, res)
                   /\ drained' = Append(drained, [index |-> i, triage |-> triage])
                   /\ failed_tasks' = DrainFailures(failed_tasks, all_tasks[i], triage)
    /\ in_progress' = in_progress \ {i}
    /\ UNCHANGED <<all_tasks, dry_run, worker_num, stream_pos, sent, emit_ret, pcE>>
    /\ UNCHANGED othersE

CompleteAny == \E i \in 1..MaxTasks : CompleteTask(i)

\* The stream is exhausted: Ok(None) or Ok(Some(failed_tasks)).
FinishEmit ==
    /\ pcE = "emit"
    /\ stream_pos > Len(all_tasks)
    /\ in_progress = {}
    /\ emit_ret' = IF failed_tasks = <<>> THEN None ELSE Some(failed_tasks)
    /\ pcE' = "done"
    /\ UNCHANGED <<all_tasks, dry_run, worker_num, stream_pos, in_progress, sent,
                   collection, drained, failed_tasks>>
    /\ UNCHANGED othersE

NextEmitter == StartTask \/ CompleteAny \/ FinishEmit

IdleEmitter ==
    /\ all_tasks = <<>>
    /\ dry_run = FALSE
    /\ worker_num = 1
    /\ stream_pos = 1
    /\ in_progress = {}
    /\ sent = <<>>
    /\ collection = <<>>
    /\ drained = <<>>
    /\ failed_tasks = <<>>
    /\ emit_ret = None
    /\ pcE = "idle"

----------------------------------------------------------------------------
(* shared HnswIndex, src/shared/src/hnsw.rs: the wrapper's flag and the two  *)
(* settings of the inner index it touches.  The inner index keeps the list  *)
(* of the calls it received; hnsw_log keeps the wrapper's calls, each with  *)
(* the index as the call left it.                                           *)

MaxCalls == 5

\* The number of queries of a search_batch.
BatchSizes == {0, 2}

set_extend_candidates(inner, flag) ==
    [inner EXCEPT !.extend_candidates = flag,
                  !.calls = Append(@, <<"set_extend_candidates", flag>>)]

set_searching_mode(inner, flag) ==
    [inner EXCEPT !.searching_mode = flag,
                  !.calls = Append(@, <<"set_searching_mode", flag>>)]

parallel_insert(inner) == [inner EXCEPT !.calls = Append(@, <<"parallel_insert">>)]

\* n searches of a batch on the inner index
RECURSIVE inner_search(_, _)
inner_search(inner, n) ==
    IF n = 0 THEN inner
    ELSE inner_search([inner EXCEPT !.calls = Append(@, <<"search">>)], n - 1)

\* HnswIndex::new / new_from_storage: the flag is false; extend_candidates is
\* as the library built or loaded the inner index.
NewHnswIndexes ==
    {[inner |-> [searching_mode |-> FALSE, extend_candidates |-> e, calls |-> <<>>],
      search_mode_flag |-> FALSE] : e \in BOOLEAN}

check_insert(h) ==
    IF h.search_mode_flag
    THEN [h EXCEPT !.inner = set_extend_candidates(@, FALSE)]
    ELSE h

\* A check that sets the searching mode at every search.
check_search_every_time(h) ==
    [h EXCEPT !.inner = set_searching_mode(@, TRUE), !.search_mode_flag = TRUE]

check_search(h) ==
    IF ~h.search_mode_flag
    THEN [h EXCEPT !.inner = set_searching_mode(@, TRUE), !.search_mode_flag = TRUE]
    ELSE h

InitHnsw ==
    /\ hnsw_index \in NewHnswIndexes
    /\ hnsw_log = <<[name |-> "new", index |-> hnsw_index]>>

hnsw_insert ==
    /\ Len(hnsw_log) <= MaxCalls
    /\ hnsw_index' = [check_insert(hnsw_index) EXCEPT !.inner = parallel_insert(@)]
    /\ hnsw_log' = Append(hnsw_log, [name |-> "insert", index |-> hnsw_index'])
    /\ UNCHANGED othersH

hnsw_search ==
    /\ Len(hnsw_log) <= MaxCalls
    /\ hnsw_index' = [check_search(hnsw_index) EXCEPT !.inner = inner_search(@, 1)]
    /\ hnsw_log' = Append(hnsw_log, [name |-> "search", index |-> hnsw_index'])
    /\ UNCHANGED othersH

hnsw_search_batch ==
    /\ Len(hnsw_log) <= MaxCalls
    /\ \E n \in BatchSizes :
          hnsw_index' = [check_search(hnsw_index) EXCEPT !.inner = inner_search(@, n)]
    /\ hnsw_log' = Append(hnsw_log, [name |-> "search_batch", index |-> hnsw_index'])
    /\ UNCHANGED othersH

NextHnsw == hnsw_insert \/ hnsw_search \/ hnsw_search_batch

IdleHnsw ==
    /\ hnsw_index = <<>>
    /\ hnsw_log = <<>>

----------------------------------------------------------------------------
(* stage7 rename, src/stage7/src/main.rs: rename_task runs the files through *)
(* buffer_unordered(worker_num); a file is renamed by a copy to the path    *)
(* with the expected extension followed by a delete of the source.  A path  *)
(* is <<stem, extension>>; the object store maps a path to the object it    *)
(* holds, 0 for none; the object of the k-th file is k.                     *)

MaxFiles == 2

\* (extension in the path, expected extension) of a listed file
ExtPairs == {<<"jpeg", "jpg">>, <<"png", "jpg">>}

Paths == (1..MaxFiles) \X {"jpeg", "jpg", "png"}

\* The files of ext_files_wrong.json: the k-th file has the stem k.
WrongFileLists ==
    UNION {[1..n -> {[path |-> <<k, p[1]>>, expected_ext |-> p[2]] :
                        k \in 1..MaxFiles, p \in ExtPairs}] : n \in 0..MaxFiles}

\* file.path.split('.').last()
wrong_ext(f) == f.path[2]

\* format!("{}.{}", file.path.split('.').next(), file.expected_ext)
right_file_path(f) == <<f.path[1], f.expected_ext>>

\* --skip-ext-pair FROM TO, given or not
SkipExtPairs == {{}, {<<"jpeg", "jpg">>}}

\* The early returns of rename_single_task: a skipped pair, or a dry run.
Bypassed(f, skip, dry) == <<wrong_ext(f), f.expected_ext>> \in skip \/ dry

\* A rename that goes on to the delete whatever the copy answered.
after_copy_ignoring_error(res) == "delete"

\* rename_atomic_task after the copy answered: `?` returns on an error.
after_copy(res) == IF res = "ok" THEN "delete" ELSE "return"

\* op.copy(src, dst), succeeding
copy(store, from, to) == [store EXCEPT ![to] = store[from]]

\* op.delete(src), succeeding
delete(store, from) == [store EXCEPT ![from] = 0]

InitRename ==
    /\ wrong_files \in WrongFileLists
    /\ \A k \in 1..Len(wrong_files) : wrong_files[k].path[1] = k
    /\ rename_dry_run \in BOOLEAN
    /\ rename_workers \in 1..MaxWorkers
    /\ skip_ext_pairs \in SkipExtPairs
    /\ \E present \in SUBSET (1..Len(wrong_files)) :
          object_store = [p \in Paths |->
              IF \E k \in present : wrong_files[k].path = p THEN p[1] ELSE 0]
    /\ store_before = object_store
    /\ rename_pos = 1
    /\ rename_state = <<>>
    /\ rename_log = <<>>
    /\ rename_failed = <<>>
    /\ rename_ret = None
    /\ pcR = "rename"

\* buffer_unordered takes the next file while fewer than worker_num are in
\* progress; rename_single_task returns at once for a skipped pair and in a dry
\* run, and issues the copy otherwise.
StartRename ==
    /\ pcR = "rename"
    /\ rename_pos <= Len(wrong_files)
    /\ Cardinality({i \in 1..Len(rename_state) :
                       rename_state[i] \in {"copy", "delete"}}) < rename_workers
    /\ IF Bypassed(wrong_files[rename_pos], skip_ext_pairs, rename_dry_run)
       THEN /\ rename_state' = Append(rename_state, "done")
            /\ rename_log' = rename_log
       ELSE /\ rename_state' = Append(rename_state, "copy")
            /\ rename_log' = Append(rename_log,
                   [ev |-> "issue", op |-> "copy", file |-> rename_pos])
    /\ rename_pos' = rename_pos + 1
    /\ UNCHANGED <<wrong_files, rename_dry_run, rename_workers, skip_ext_pairs,
                   object_store, store_before, rename_failed, rename_ret, pcR>>
    /\ UNCHANGED othersR

\* The copy of file i answers: it fails when the source holds nothing and may
\* fail otherwise; after an Ok the delete is issued, after an Err the task
\* returns and the file is pushed to failed_tasks.
CopyAnswers(i) ==
    /\ pcR = "rename"
    /\ i \in 1..Len(rename_state)
    /\ rename_state[i] = "copy"
    /\ LET f == wrong_files[i]
       IN  \E res \in IF object_store[f.path] = 0 THEN {"err"} ELSE {"ok", "err"} :
               /\ object_store' = IF res = "ok"
                                  THEN copy(object_store, f.path, right_file_path(f))
                                  ELSE object_store
               /\ IF after_copy(res) = "delete"
                  THEN /\ rename_state' = [rename_state EXCEPT ![i] = "delete"]
                       /\ rename_log' = rename_log
                              \o <<[ev |-> res, op |-> "copy", file |-> i],
                                   [ev |-> "issue", op |-> "delete", file |-> i]>>
                       /\ rename_failed' = rename_failed
                  ELSE /\ rename_state' = [rename_state EXCEPT ![i] = "done"]
                       /\ rename_log' = Append(rename_log,
                              [ev |-> res, op |-> "copy", file |-> i])
                       /\ rename_failed' = Append(rename_failed, f)
    /\ UNCHANGED <<wrong_files, rename_dry_run, rename_workers, skip_ext_pairs,
                   store_before, rename_pos, rename_ret, pcR>>
    /\ UNCHANGED othersR

\* The delete of file i answers; an Err pushes the file to failed_tasks.
DeleteAnswers(i) ==
    /\ pcR = "rename"
    /\ i \in 1..Len(rename_state)
    /\ rename_state[i] = "delete"
    /\ LET f == wrong_files[i]
       IN  \E res \in {"ok", "err"} :
               /\ object_store' = IF res = "ok" THEN delete(object_store, f.path)
                                  ELSE object_store
               /\ rename_log' = Append(rename_log, [ev |-> res, op |-> "delete", file |-> i])
               /\ rename_failed' = IF res = "ok" THEN rename_failed
                                   ELSE Append(rename_failed, f)
    /\ rename_state' = [rename_state EXCEPT ![i] = "done"]
    /\ UNCHANGED <<wrong_files, rename_dry_run, rename_workers, skip_ext_pairs,
                   store_before, rename_pos, rename_ret, pcR>>
    /\ UNCHANGED othersR

CopyAnswersAny == \E i \in 1..MaxFiles : CopyAnswers(i)

DeleteAnswersAny == \E i \in 1..MaxFiles : DeleteAnswers(i)

\* The stream is exhausted: Ok(None) or Ok(Some(failed_tasks)).
FinishRename ==
    /\ pcR = "rename"
    /\ rename_pos > Len(wrong_files)
    /\ \A i \in 1..Len(rename_state) : rename_state[i] = "done"
    /\ rename_ret' = IF rename_failed = <<>> THEN None ELSE Some(rename_failed)
    /\ pcR' = "done"
    /\ UNCHANGED <<wrong_files, rename_dry_run, rename_workers, skip_ext_pairs,
                   object_store, store_before, rename_pos, rename_state, rename_log,
                   rename_failed>>
    /\ UNCHANGED othersR

NextRename == StartRename \/ CopyAnswersAny \/ DeleteAnswersAny \/ FinishRename

IdleRename ==
    /\ wrong_files = <<>>
    /\ rename_dry_run = FALSE
    /\ rename_workers = 1
    /\ skip_ext_pairs = {}
    /\ object_store = <<>>
    /\ store_before = <<>>
    /\ rename_pos = 1
    /\ rename_state = <<>>
    /\ rename_log = <<>>
    /\ rename_failed = <<>>
    /\ rename_ret = None
    /\ pcR = "idle"

----------------------------------------------------------------------------
(* Specifications: each runs one component and leaves the others idle. *)

Idle1 ==
    /\ sim_map = <<>>
    /\ all_ids = <<>>
    /\ chunk_size = 1
    /\ pc1 = "idle"
    /\ all_local_clusters = <<>>
    /\ lc_idx = 1
    /\ global_clusters = <<>>

InitStage1 == Init1 /\ InitPE /\ Idle9 /\ Idle11 /\ IdleStore /\ IdleGifWorker /\ IdleFrames /\ IdleEmitter /\ IdleHnsw /\ IdleRename

SpecStage1 == InitStage1 /\ [][Next1]_vars

InitExplorer == Idle1 /\ InitPE /\ Idle9 /\ Idle11 /\ IdleStore /\ IdleGifWorker /\ IdleFrames /\ IdleEmitter /\ IdleHnsw /\ IdleRename

SpecExplorer == InitExplorer /\ [][NextPE]_vars

InitStage9 == Idle1 /\ InitPE /\ Init9 /\ Idle11 /\ IdleStore /\ IdleGifWorker /\ IdleFrames /\ IdleEmitter /\ IdleHnsw /\ IdleRename

SpecStage9 == InitStage9 /\ [][Next9]_vars

InitStage11 == Idle1 /\ InitPE /\ Idle9 /\ Init11 /\ IdleStore /\ IdleGifWorker /\ IdleFrames /\ IdleEmitter /\ IdleHnsw /\ IdleRename

SpecStage11 == InitStage11 /\ [][Next11]_vars

InitPersist == Idle1 /\ InitPE /\ Idle9 /\ Idle11 /\ InitStore /\ IdleGifWorker /\ IdleFrames /\ IdleEmitter /\ IdleHnsw /\ IdleRename

SpecPersist == InitPersist /\ [][NextStore]_vars

InitStageGif == Idle1 /\ InitPE /\ Idle9 /\ Idle11 /\ IdleStore /\ InitGifWorker /\ IdleFrames /\ IdleEmitter /\ IdleHnsw /\ IdleRename

SpecGifWorker == InitStageGif /\ [][NextGifWorker]_vars

InitStageFrames == Idle1 /\ InitPE /\ Idle9 /\ Idle11 /\ IdleStore /\ IdleGifWorker /\ InitFrames /\ IdleEmitter /\ IdleHnsw /\ IdleRename

SpecFrames == InitStageFrames /\ [][NextFrames]_vars

InitStageEmitter == Idle1 /\ InitPE /\ Idle9 /\ Idle11 /\ IdleStore /\ IdleGifWorker /\ IdleFrames /\ InitEmitter /\ IdleHnsw /\ IdleRename

SpecEmitter == InitStageEmitter /\ [][NextEmitter]_vars

InitStageHnsw == Idle1 /\ InitPE /\ Idle9 /\ Idle11 /\ IdleStore /\ IdleGifWorker /\ IdleFrames /\ IdleEmitter /\ InitHnsw /\ IdleRename

SpecHnsw == InitStageHnsw /\ [][NextHnsw]_vars

InitStageRename == Idle1 /\ InitPE /\ Idle9 /\ Idle11 /\ IdleStore /\ IdleGifWorker /\ IdleFrames /\ IdleEmitter /\ IdleHnsw /\ InitRename

SpecRename == InitStageRename /\ [][NextRename]_vars

----------------------------------------------------------------------------
(* Claims *)

\* C2: every output cluster of local clustering followed by global merging is a
\* clique of the threshold graph: any two distinct members have similarity >= 0.985.
C2_CliqueThreshold ==
    \A g \in 1..Len(global_clusters) :
        \A i, j \in global_clusters[g] :
            i # j => LookupSim(sim_map, i, j) >= THRESHOLD

\* A finished run in which merging local clusters produced a cluster of two or
\* more ids beside another cluster.
C2_Witness ==
    /\ pc1 = "done"
    /\ chunk_size < MaxIds
    /\ Len(global_clusters) >= 2
    /\ \E g \in 1..Len(global_clusters) : Cardinality(global_clusters[g]) >= 2

\* C8: after any sequence of insert, extend, remove and clear the index mapping is
\* a bijection between the ids present and 0..len-1, and both lookups answer None
\* outside it.
C8_IndexBijection ==
    /\ \A id \in PointIds :
          IF contains(point_vector_map, id)
          THEN /\ uuid2index(point_vector_map, id) # None
               /\ index2uuid(point_vector_map, uuid2index(point_vector_map, id)[1]) = Some(id)
          ELSE uuid2index(point_vector_map, id) = None
    /\ \A i \in 0..(MaxPoints + 1) :
          IF i < len(point_vector_map)
          THEN /\ index2uuid(point_vector_map, i) # None
               /\ uuid2index(point_vector_map, index2uuid(point_vector_map, i)[1]) = Some(i)
          ELSE index2uuid(point_vector_map, i) = None

\* A store holding at least two ids, reached through a removal.
C8_Witness ==
    /\ pe_op.name = "remove"
    /\ pe_op.old_index = Some(0)
    /\ len(point_vector_map) = MaxPoints - 1

\* C9: an insert that returns leaves every other id's vector and index as
\* they were and makes get_vector(id) the inserted vector; an id already present
\* keeps its index and the length, a new id gets index len and the length grows
\* by one.
C9_InsertFrame ==
    [][(pe_op'.name = "insert" /\ ~pe_panicked') =>
        LET id == pe_op'.id
            m  == point_vector_map
            m2 == point_vector_map'
        IN  /\ get_vector(m2, id) = Some(pe_op'.vec)
            /\ \A other \in PointIds \ {id} :
                  /\ get_vector(m2, other) = get_vector(m, other)
                  /\ uuid2index(m2, other) = uuid2index(m, other)
            /\ IF contains(m, id)
               THEN len(m2) = len(m) /\ uuid2index(m2, id) = uuid2index(m, id)
               ELSE len(m2) = len(m) + 1 /\ uuid2index(m2, id) = Some(len(m))]_vars

\* An id that was present, and not last, has been inserted again.
C9_Witness ==
    /\ pe_op.name = "insert"
    /\ ~pe_panicked
    /\ pe_op.old_index # None
    /\ pe_op.old_index # Some(len(point_vector_map) - 1)
    /\ get_vector(point_vector_map, pe_op.id) = Some(pe_op.vec)

\* C10: remove(id) of a present id returns its vector, takes the id out, lowers
\* by one the index of every id that came after it and leaves the ids before it
\* alone; of an absent id it returns None and changes nothing.  An insert of the
\* removed id right after its removal puts it at the last index.
C10_RemoveFrame ==
    [][/\ pe_op'.name = "remove" =>
            LET id == pe_op'.id
                m  == point_vector_map
                m2 == point_vector_map'
            IN  IF contains(m, id)
                THEN /\ pe_ret' = get_vector(m, id)
                     /\ pe_ret' # None
                     /\ ~contains(m2, id)
                     /\ uuid2index(m2, id) = None
                     /\ len(m2) = len(m) - 1
                     /\ \A other \in PointIds \ {id} :
                           /\ get_vector(m2, other) = get_vector(m, other)
                           /\ contains(m, other) =>
                                 uuid2index(m2, other) =
                                     IF uuid2index(m, other)[1] > uuid2index(m, id)[1]
                                     THEN Some(uuid2index(m, other)[1] - 1)
                                     ELSE uuid2index(m, other)
                ELSE pe_ret' = None /\ m2 = m
       /\ (/\ pe_op.name = "remove"
           /\ pe_op.old_index # None
           /\ pe_op'.name = "insert"
           /\ pe_op'.id = pe_op.id
           /\ ~pe_panicked') =>
              uuid2index(point_vector_map', pe_op.id)
                  = Some(len(point_vector_map') - 1)]_vars

\* An id between two others has been removed.
C10_Witness ==
    /\ pe_op.name = "remove"
    /\ pe_op.old_index = Some(1)
    /\ pe_ret # None
    /\ len(point_vector_map) >= 2

----------------------------------------------------------------------------
(* stage9 properties *)

\* extract_clusters has just returned; its result is not written again.
TriageDone == pc9 = "gif"

\* C1: whatever the cluster and the metadata, once extract_clusters has
\* returned (by the early exit or by the normal path) its four outputs
\* kept_text_anomalies, to_triage_gifs, kept_non_gif and other_delete are
\* pairwise disjoint, list no id twice, and together are exactly the cluster.
C1_TriagePartition ==
    TriageDone =>
        LET A == OptIds(extract_clusters_res.kept_text_anomalies)
            G == OptIds(extract_clusters_res.to_triage_gifs)
            K == OptId(extract_clusters_res.kept_non_gif)
            D == OptIds(extract_clusters_res.other_delete)
            Length(opt) == IF opt = None THEN 0 ELSE Len(opt[1])
        IN  /\ A \cap G = {} /\ A \cap K = {} /\ A \cap D = {}
            /\ G \cap K = {} /\ G \cap D = {} /\ K \cap D = {}
            /\ A \cup G \cup K \cup D = cursor
            /\ Length(extract_clusters_res.kept_text_anomalies)
                 + Length(extract_clusters_res.to_triage_gifs)
                 + Cardinality(K)
                 + Length(extract_clusters_res.other_delete) = Cardinality(cursor)

\* The normal path with a text anomaly, a kept survivor and something to delete.
C1_Witness ==
    /\ TriageDone
    /\ extract_clusters_res.path = "normal"
    /\ extract_clusters_res.kept_text_anomalies # None
    /\ extract_clusters_res.kept_non_gif # None
    /\ extract_clusters_res.other_delete # None

\* The id lists of an emitted FinalClassification.
InvalidIds(fc) ==
    IF fc.triaged_gif_and_invalid_group = None THEN {}
    ELSE Range(fc.triaged_gif_and_invalid_group[1][1])

KeepLists(fc) ==
    <<fc.kept_text_anomalies_group, fc.triaged_gif_and_then_will_keep_group,
      IF fc.kept_non_gif = None THEN None ELSE Some(<<fc.kept_non_gif[1]>>)>>

DiscardLists(fc) ==
    <<IF fc.triaged_gif_and_invalid_group = None THEN None
      ELSE Some(fc.triaged_gif_and_invalid_group[1][1]),
      fc.triaged_gif_and_discard_same_frame_group,
      fc.triaged_gif_and_then_will_delete_group,
      fc.other_need_delete_group>>

ListedIds(lists) == UNION {OptIds(lists[k]) : k \in 1..Len(lists)}

ListedCount(lists) ==
    LET Length(opt) == IF opt = None THEN 0 ELSE Len(opt[1])
        RECURSIVE Sum(_)
        Sum(k) == IF k = 0 THEN 0 ELSE Length(lists[k]) + Sum(k - 1)
    IN  Sum(Len(lists))

\* C3: when the run emits the FinalClassification of a cluster, its seven id
\* lists (kept text anomalies, kept non-GIF, kept GIFs, invalid GIFs, static
\* GIFs, deleted GIFs, other-delete) are pairwise disjoint and together are the
\* cluster, and the GIFs that triage sent to to_triage_gifs are exactly the ids
\* of the four GIF lists.
C3_FinalPartition ==
    pc9 = "done" =>
        LET fc  == final_classification[1]
            all == KeepLists(fc) \o DiscardLists(fc)
        IN  /\ \A a, b \in 1..Len(all) : a < b => OptIds(all[a]) \cap OptIds(all[b]) = {}
            /\ ListedIds(all) = cursor
            /\ ListedCount(all) = Cardinality(cursor)
            /\ OptIds(extract_clusters_res.to_triage_gifs)
                 = InvalidIds(fc)
                     \cup OptIds(fc.triaged_gif_and_discard_same_frame_group)
                     \cup OptIds(fc.triaged_gif_and_then_will_keep_group)
                     \cup OptIds(fc.triaged_gif_and_then_will_delete_group)

\* A cluster whose GIFs end in three different GIF lists.
C3_Witness ==
    /\ pc9 = "done"
    /\ OptIds(final_classification[1].triaged_gif_and_then_will_keep_group) # {}
    /\ OptIds(final_classification[1].triaged_gif_and_then_will_delete_group) # {}
    /\ \/ InvalidIds(final_classification[1]) # {}
       \/ OptIds(final_classification[1].triaged_gif_and_discard_same_frame_group) # {}

\* C4: every non-empty cluster keeps a survivor: in the emitted
\* FinalClassification at least one id of the cluster is in a keep list
\* (kept_text_anomalies, kept_non_gif or the kept GIFs).
C4_SurvivorRetained ==
    (pc9 = "done" /\ cursor # {}) =>
        ListedIds(KeepLists(final_classification[1])) # {}

\* C5: on the normal path, with R the cluster without the kept text anomalies,
\* G the GIFs of R and N the rest of R: two or more GIFs all go to GIF triage
\* and nothing is kept; a lone GIF is kept and nothing goes to GIF triage;
\* without GIFs the kept id is a member of N of maximal size (0 for an id
\* without metadata).  On every path other_delete is R without to_triage_gifs
\* and without the kept id.
C5_SurvivorSelection ==
    TriageDone =>
        LET R    == cursor \ OptIds(extract_clusters_res.kept_text_anomalies)
            G    == {id \in R : is_gif(points_metadata, id)}
            N    == R \ G
            gifs == extract_clusters_res.to_triage_gifs
            kept == extract_clusters_res.kept_non_gif
        IN  /\ extract_clusters_res.path = "normal" =>
                /\ Cardinality(G) >= 2 => gifs # None /\ OptIds(gifs) = G /\ kept = None
                /\ Cardinality(G) = 1 => gifs = None /\ kept # None /\ OptId(kept) = G
                /\ G = {} =>
                      /\ gifs = None
                      /\ kept # None
                      /\ OptId(kept) \subseteq N
                      /\ \A n \in N : \A k \in OptId(kept) :
                            size_or_zero(points_metadata, n)
                                <= size_or_zero(points_metadata, k)
            /\ OptIds(extract_clusters_res.other_delete) = (R \ OptIds(gifs)) \ OptId(kept)

\* A lone GIF kept beside larger non-GIFs that are deleted.
C5_Witness ==
    /\ TriageDone
    /\ extract_clusters_res.path = "normal"
    /\ extract_clusters_res.kept_non_gif # None
    /\ is_gif(points_metadata, extract_clusters_res.kept_non_gif[1])
    /\ \E d \in OptIds(extract_clusters_res.other_delete) :
           size_or_zero(points_metadata, d)
               > size_or_zero(points_metadata, extract_clusters_res.kept_non_gif[1])

----------------------------------------------------------------------------
(* stage11 properties *)

\* The tags of an id: its categories without repetition, none when the id has
\* no metadata entry or no category list.
TagsOf(uuid) ==
    IF categories_of(points_metadata_ex, uuid) = None THEN {}
    ELSE Range(categories_of(points_metadata_ex, uuid)[1])

\* C6: for every item the three lists reach the assert_eq with
\* transfer_tag_list as long as keep_point_list, so the planner never panics
\* and builds the ReSetPointTask, also when a kept id has no metadata entry or
\* no category list.
C6_TagListLength ==
    pc11 # "plan" =>
        /\ Len(task.transfer_tag_list) = Len(task.keep_point_list)
        /\ pc11 # "panicked"

C11_RoundTrip ==
    pcS = "loaded" =>
        LET p == explorer
            q == loaded[1]
        IN  /\ len(q.point_vector_map) = len(p.point_vector_map)
            /\ \A index \in 0..MaxStored :
                  index2uuid(q.point_vector_map, index) = index2uuid(p.point_vector_map, index)
            /\ \A id \in StoredIds :
                  /\ get_vector(q.point_vector_map, id) = get_vector(p.point_vector_map, id)
                  /\ get_point_metadata(q, id) = get_point_metadata(p, id)
                  /\ get_point_uri(q, PrefixName, id) = get_point_uri(p, PrefixName, id)
            /\ \A id_a, id_b \in StoredIds :
                  get_cosine_sim(q.point_vector_map, id_a, id_b)
                      = get_cosine_sim(p.point_vector_map, id_a, id_b)

\* C12: a get_cosine_sim((a, b)) call answers Ok(similarity) exactly when a and
\* b are both present; with a absent it answers PointNotFound(a), with a present
\* and b absent PointNotFound(b); the explorer and the file are left as they were.
C12_CosineSimContract ==
    [][st_op'.name = "get_cosine_sim" =>
          LET id_a == st_op'.args[1]
              id_b == st_op'.args[2]
              m    == explorer.point_vector_map
          IN  /\ explorer' = explorer
              /\ disk' = disk
              /\ loaded' = loaded
              /\ ("ok" \in DOMAIN st_ret') <=> (contains(m, id_a) /\ contains(m, id_b))
              /\ (contains(m, id_a) /\ contains(m, id_b)) =>
                    st_ret'.ok = cosine_sim(get_vector(m, id_a)[1], get_vector(m, id_b)[1])
              /\ ~contains(m, id_a) => st_ret' = PointNotFound(id_a)
              /\ (contains(m, id_a) /\ ~contains(m, id_b)) => st_ret' = PointNotFound(id_b)
    ]_vars

\* A call whose first id is present and whose second is absent was answered
\* with PointNotFound of the second.
C12_Witness ==
    /\ st_op.name = "get_cosine_sim"
    /\ contains(explorer.point_vector_map, st_op.args[1])
    /\ ~contains(explorer.point_vector_map, st_op.args[2])
    /\ st_ret = PointNotFound(st_op.args[2])

\* The clusters cl are what first-match greedy makes of the chunk ids: the k-th
\* id sits in the earliest cluster all of whose members among the ids before it
\* pass against it, and opens a new cluster behind all clusters begun so far
\* only when there is none.
FirstMatchGreedy(ids, cl) ==
    LET Before(k) == {ids[j] : j \in 1..(k - 1)}
        Qualifies(c, k) ==
            /\ cl[c] \cap Before(k) # {}
            /\ \A other \in cl[c] \cap Before(k) :
                  LookupSim(sim_map, ids[k], other) > THRESHOLD
    IN  /\ \A k \in 1..Len(ids) : \E c \in 1..Len(cl) : ids[k] \in cl[c]
        /\ \A c \in 1..Len(cl) : cl[c] # {} /\ cl[c] \subseteq Range(ids)
        /\ \A c, d \in 1..Len(cl) : c # d => cl[c] \cap cl[d] = {}
        /\ \A k \in 1..Len(ids) :
              LET c == CHOOSE c \in 1..Len(cl) : ids[k] \in cl[c]
              IN  IF \E d \in 1..Len(cl) : Qualifies(d, k)
                  THEN /\ Qualifies(c, k)
                       /\ \A d \in 1..(c - 1) : ~Qualifies(d, k)
                  ELSE /\ cl[c] \cap Before(k) = {}
                       /\ \A d \in 1..Len(cl) : cl[d] \cap Before(k) # {} => d < c

\* The local clusters made of the ids of the k-th chunk, in list order.
LocalClustersOfChunk(k) ==
    LET chunk == Chunks(all_ids, chunk_size)[k]
    IN  SelectSeq(all_local_clusters, LAMBDA cl : cl \subseteq Range(chunk))

\* C13: phase-1 local clustering is first-match greedy: in every chunk each id,
\* taken in input order, joins the earliest-created cluster whose current members
\* all pass the similarity test with it, and otherwise starts a new cluster at
\* the end of the list; the chunks' cluster lists follow each other in chunk order.
C13_FirstMatchGreedy ==
    pc1 \in {"merge", "done"} =>
        LET chunks == Chunks(all_ids, chunk_size)
        IN  /\ all_local_clusters = Flatten([k \in 1..Len(chunks) |-> LocalClustersOfChunk(k)])
            /\ \A k \in 1..Len(chunks) : FirstMatchGreedy(chunks[k], LocalClustersOfChunk(k))

\* One chunk holds three ids; the third fits the clusters of the first and of
\* the second and went to the first; another order of the same ids gives other
\* clusters.
C13_Witness ==
    /\ pc1 \in {"merge", "done"}
    /\ Len(all_ids) = 3
    /\ chunk_size = 3
    /\ all_local_clusters = <<{all_ids[1], all_ids[3]}, {all_ids[2]}>>
    /\ LookupSim(sim_map, all_ids[3], all_ids[2]) > THRESHOLD
    /\ \E other \in Perms(Range(all_ids)) :
          Range(cluster_chunk(other, sim_map)) # Range(all_local_clusters)

\* C14: phase-2 global merging takes the local clusters one at a time in list
\* order; a step merges the local cluster whole into the first global cluster all
\* of whose members pass against all of its members, and appends it as a new
\* global cluster when there is none; the other global clusters keep content and
\* place, and no local cluster taken so far is split.
C14_SequentialMerge ==
    [][lc_idx' = lc_idx + 1 =>
          LET L  == all_local_clusters[lc_idx]
              G  == global_clusters
              Gn == global_clusters'
              Q(g) == \A i \in L : \A j \in G[g] : LookupSim(sim_map, i, j) > THRESHOLD
          IN  /\ all_local_clusters' = all_local_clusters
              /\ IF \E g \in 1..Len(G) : Q(g)
                 THEN /\ Len(Gn) = Len(G)
                      /\ \E g \in 1..Len(G) :
                            /\ Q(g)
                            /\ \A d \in 1..(g - 1) : ~Q(d)
                            /\ Gn[g] = G[g] \cup L
                            /\ \A d \in 1..Len(G) : d # g => Gn[d] = G[d]
                 ELSE /\ Len(Gn) = Len(G) + 1
                      /\ Gn[Len(Gn)] = L
                      /\ \A d \in 1..Len(G) : Gn[d] = G[d]
              /\ \A k \in 1..lc_idx : \E g \in 1..Len(Gn) : all_local_clusters[k] \subseteq Gn[g]
    ]_vars

\* The third local cluster fits both global clusters and was merged into the
\* first.
C14_Witness ==
    /\ pc1 = "merge"
    /\ lc_idx = 4
    /\ Len(all_local_clusters) = 3
    /\ global_clusters = <<all_local_clusters[1] \cup all_local_clusters[3],
                           all_local_clusters[2]>>
    /\ \A i \in all_local_clusters[3] : \A j \in all_local_clusters[2] :
          LookupSim(sim_map, i, j) > THRESHOLD

\* C15: the similarity test is inclusive: when all ids are in one chunk and every
\* pair of them has a similarity of at least the threshold (exactly the
\* threshold included), every id is admitted to the first cluster, so local
\* clustering leaves one cluster.
C15_InclusiveThreshold ==
    (/\ pc1 \in {"merge", "done"}
     /\ chunk_size >= Len(all_ids)
     /\ \A a, b \in Range(all_ids) : a # b => LookupSim(sim_map, a, b) >= THRESHOLD)
        => Len(all_local_clusters) <= 1

\* The pair (a, b) is stored in neither direction.
MissingPair(a, b) ==
    /\ ~(a \in DOMAIN sim_map /\ b \in DOMAIN sim_map[a])
    /\ ~(b \in DOMAIN sim_map /\ a \in DOMAIN sim_map[b])

\* C16 as stated: when the similarity of the first two ids, a pair every run
\* compares, is stored in neither direction, the run does not get to write its
\* clusters.
C16_MissingPairAborts ==
    (Len(all_ids) >= 2 /\ MissingPair(all_ids[1], all_ids[2])) => pc1 # "done"

\* C16 as the code has it: a pair stored in neither direction counts as
\* similarity 0.0 and fails the test, so no local and no global cluster ever
\* holds both of its ids.
C16_MissingPairIsDissimilar ==
    \A a, b \in Range(all_ids) :
        (a # b /\ MissingPair(a, b)) =>
            /\ \A k \in 1..Len(all_local_clusters) : ~({a, b} \subseteq all_local_clusters[k])
            /\ \A g \in 1..Len(global_clusters) : ~({a, b} \subseteq global_clusters[g])

\* A run over three ids whose first two have no stored similarity wrote its
\* clusters: the third id with the first, the second alone.
C16_Witness ==
    /\ pc1 = "done"
    /\ Len(all_ids) = 3
    /\ MissingPair(all_ids[1], all_ids[2])
    /\ global_clusters = <<{all_ids[1], all_ids[3]}, {all_ids[2]}>>

\* The members of the cluster that have a text embedding.
TextMembers == {id \in cursor : has_text_info(points_metadata, id)}

\* C17: the members with a text embedding are split into text clusters by the
\* greedy clique algorithm over some order of them, every two members of a text
\* cluster having text similarity above 0.9; kept_text_anomalies lists exactly
\* one id per text cluster, in cluster order, of maximal size in its cluster;
\* every other text member is in one of the three outputs that make up the pool
\* R = C minus kept_text_anomalies.
C17_TextSplit ==
    TriageDone =>
        LET md   == points_metadata
            kept == IF extract_clusters_res.kept_text_anomalies = None THEN <<>>
                    ELSE extract_clusters_res.kept_text_anomalies[1]
            pool == OptIds(extract_clusters_res.to_triage_gifs)
                        \cup OptId(extract_clusters_res.kept_non_gif)
                        \cup OptIds(extract_clusters_res.other_delete)
        IN  /\ (extract_clusters_res.kept_text_anomalies = None) <=> (TextMembers = {})
            /\ \E order \in Perms(TextMembers) :
                  LET cl == find_text_anomalies_clusters(order, md)
                  IN  /\ UNION {Range(cl[c]) : c \in 1..Len(cl)} = TextMembers
                      /\ \A c \in 1..Len(cl) : \A a, b \in Range(cl[c]) :
                            a # b => cosine_sim_text(md[a].text_info[1], md[b].text_info[1])
                                         > TEXT_SIM_THRESHOLD
                      /\ Len(kept) = Len(cl)
                      /\ \A c \in 1..Len(cl) :
                            /\ kept[c] \in Range(cl[c])
                            /\ \A m \in Range(cl[c]) : md[m].size <= md[kept[c]].size
                            /\ Range(cl[c]) \ {kept[c]} \subseteq pool

\* Three text members in two text clusters: the larger member of the pair is
\* kept, the smaller one is in the pool.
C17_Witness ==
    /\ TriageDone
    /\ Cardinality(TextMembers) = 3
    /\ extract_clusters_res.kept_text_anomalies # None
    /\ Len(extract_clusters_res.kept_text_anomalies[1]) = 2
    /\ \E m \in TextMembers \ OptIds(extract_clusters_res.kept_text_anomalies) :
          \E k \in OptIds(extract_clusters_res.kept_text_anomalies) :
              /\ TextSimilar(points_metadata, m, k)
              /\ points_metadata[m].size < points_metadata[k].size

\* C18: triage leaves by the early exit exactly when every member has a text
\* embedding and no two members are text-similar (every text cluster is a
\* singleton); it then returns kept_text_anomalies = C, no GIF for triage, no
\* kept non-GIF and an other_delete without ids.  In every other case the
\* GIF / non-GIF split and the survivor selection run: something is sent to GIF
\* triage or kept, and other_delete is None or lists ids.
C18_EarlyExit ==
    TriageDone =>
        LET res == extract_clusters_res
            all_singletons ==
                /\ TextMembers = cursor
                /\ \A a, b \in cursor : a # b => ~TextSimilar(points_metadata, a, b)
        IN  IF all_singletons
            THEN /\ res.path = "early"
                 /\ OptIds(res.kept_text_anomalies) = cursor
                 /\ res.to_triage_gifs = None
                 /\ res.kept_non_gif = None
                 /\ OptIds(res.other_delete) = {}
            ELSE /\ res.path = "normal"
                 /\ res.to_triage_gifs # None \/ res.kept_non_gif # None
                 /\ res.other_delete # Some(<<>>)

\* The early exit taken for a cluster of two text members.
C18_Witness ==
    /\ TriageDone
    /\ extract_clusters_res.path = "early"
    /\ Cardinality(cursor) = 2
    /\ OptIds(extract_clusters_res.kept_text_anomalies) = cursor
    /\ extract_clusters_res.other_delete = Some(<<>>)

\* C19: the kept non-GIF does not depend on the iteration order of the sets:
\* whatever the order in which the non-GIF members of the pool are visited,
\* the survivor selection returns the id this run returned.
C19_DeterministicTieBreak ==
    (TriageDone /\ extract_clusters_res.path = "normal") =>
        LET R == cursor \ OptIds(extract_clusters_res.kept_text_anomalies)
            G == {id \in R : is_gif(points_metadata, id)}
        IN  \A non_gif_it \in Perms(R \ G) :
                GifSplit(G, non_gif_it, points_metadata)[2]
                    = extract_clusters_res.kept_non_gif

\* C20: a GIF counts as static exactly when its file decodes and has at most one
\* frame or only frames at hash distance below 5 from the first; the static
\* GIFs are the ones listed in discard_same_frame_gif_id, none of them is in
\* prepare_clip_gif_pair, and a GIF with a frame at distance 5 or more is not in
\* discard_same_frame_gif_id.
C20_StaticGifFilter ==
    pcG = "done" =>
        LET res     == results[1]
            discard == OptIds(res.discard_same_frame_gif_id)
            prepare == IF res.prepare_clip_gif_pair = None THEN {}
                       ELSE {res.prepare_clip_gif_pair[1][k].id :
                                k \in 1..Len(res.prepare_clip_gif_pair[1])}
            Static(file) ==
                /\ file.status = "ok"
                /\ \/ Len(file.dists) <= 1
                   \/ \A j \in 2..Len(file.dists) : file.dists[j] < 5
        IN  \A k \in 1..Len(gif_pair) :
                LET uuid == gif_pair[k].uuid
                    file == gif_files[uuid]
                IN  /\ (uuid \in discard) <=> Static(file)
                    /\ Static(file) => uuid \notin prepare
                    /\ (\E j \in 2..Len(file.dists) : file.dists[j] >= 5) => uuid \notin discard

\* A GIF whose second frame is at distance 4 was discarded as static beside one
\* whose second frame is at distance 5, which was prepared for CLIP.
C20_Witness ==
    /\ pcG = "done"
    /\ \E a, b \in DOMAIN gif_files :
          /\ gif_files[a] = [status |-> "ok", dists |-> <<0, 4>>]
          /\ gif_files[b] = [status |-> "ok", dists |-> <<0, 5>>]
          /\ a \in OptIds(results[1].discard_same_frame_gif_id)
          /\ results[1].prepare_clip_gif_pair # None
          /\ \E k \in 1..Len(results[1].prepare_clip_gif_pair[1]) :
                results[1].prepare_clip_gif_pair[1][k].id = b

\* The ids of prepare_clip_gif_pair of a GIF stage result.
PreparedIds(res) ==
    IF res.prepare_clip_gif_pair = None THEN <<>>
    ELSE [k \in 1..Len(res.prepare_clip_gif_pair[1]) |-> res.prepare_clip_gif_pair[1][k].id]

\* The ids and the reasons of invalid_gif_id of a GIF stage result.
InvalidGifIds(res) == IF res.invalid_gif_id = None THEN <<>> ELSE res.invalid_gif_id[1][1]

InvalidGifReasons(res) == IF res.invalid_gif_id = None THEN <<>> ELSE res.invalid_gif_id[1][2]

\* C21: a GIF whose file cannot be opened or cannot be decoded is listed once in
\* invalid_gif_id, with the reason of its failure at the same index of the
\* reason list, which is as long as the id list; it is in no other list; every
\* other GIF of the group is still processed into one of the other two lists;
\* and process returns a result, not an error.
C21_InvalidGifCaptured ==
    pcG = "done" =>
        /\ results # None
        /\ LET res     == results[1]
               ids     == InvalidGifIds(res)
               reasons == InvalidGifReasons(res)
               discard == OptIds(res.discard_same_frame_gif_id)
               prepare == Range(PreparedIds(res))
           IN  /\ Len(ids) = Len(reasons)
               /\ \A k \in 1..Len(gif_pair) :
                      LET uuid == gif_pair[k].uuid
                          file == gif_files[uuid]
                      IN  IF file.status = "ok"
                          THEN uuid \in discard \cup prepare
                          ELSE /\ Cardinality({j \in 1..Len(ids) : ids[j] = uuid}) = 1
                               /\ \A j \in 1..Len(ids) : ids[j] = uuid =>
                                      reasons[j] = IF file.status = "absent"
                                                   THEN "InternalIOError"
                                                   ELSE "InternalImageError"
                               /\ uuid \notin discard \cup prepare

\* A missing file and an undecodable one were captured with their reasons beside
\* a GIF that was prepared for CLIP.
C21_Witness ==
    /\ pcG = "done"
    /\ \E a, b, c \in DOMAIN gif_files :
          /\ gif_files[a].status = "absent"
          /\ gif_files[b].status = "undecodable"
          /\ gif_files[c] = [status |-> "ok", dists |-> <<0, 5>>]
          /\ {a, b} = Range(InvalidGifIds(results[1]))
          /\ c \in Range(PreparedIds(results[1]))

\* C29: every GIF of the group is listed exactly once over invalid_gif_id,
\* discard_same_frame_gif_id and prepare_clip_gif_pair, whatever the static
\* check and the frame extraction returned for it, and nothing else is listed.
C29_GifConservation ==
    pcG = "done" =>
        LET res    == results[1]
            listed == InvalidGifIds(res)
                        \o (IF res.discard_same_frame_gif_id = None THEN <<>>
                            ELSE res.discard_same_frame_gif_id[1])
                        \o PreparedIds(res)
        IN  /\ Len(listed) = Len(gif_pair)
            /\ \A k \in 1..Len(gif_pair) :
                   Cardinality({j \in 1..Len(listed) : listed[j] = gif_pair[k].uuid}) = 1

\* A group of three GIFs went one to each list: the static check failed for the
\* first, succeeded with "static" for the second and with "animated" for the
\* third, whose few frames were all extracted.
C29_Witness ==
    /\ pcG = "done"
    /\ Len(gif_pair) = 3
    /\ Len(InvalidGifIds(results[1])) = 1
    /\ Cardinality(OptIds(results[1].discard_same_frame_gif_id)) = 1
    /\ \E k \in 1..Len(results[1].prepare_clip_gif_pair[1]) :
          /\ Len(results[1].prepare_clip_gif_pair) = 1
          /\ results[1].prepare_clip_gif_pair[1][k].frame = <<0, 1, 2>>

\* C22: process_single over a decoded GIF of n frames returns, for n >= 5, the
\* five frames at indices 0, n/4, n/2, 3n/4 and n-1 (integer division), which
\* are pairwise distinct and in increasing order; for n < 5 it returns all n
\* frames in order in permissive mode and fails with PoorFrames(n) in strict mode.
C22_FrameExtraction ==
    (pcF = "done" /\ gif_path.status = "ok") =>
        LET n   == Len(gif_path.dists)
            res == frames_res[1]
        IN  /\ n >= 5 =>
                  /\ res = Ok(<<0, n \div 4, n \div 2, (3 * n) \div 4, n - 1>>)
                  /\ \A i, j \in 1..5 : i < j => res.val[i] < res.val[j]
            /\ (n < 5 /\ allow_poor) => res = Ok([k \in 1..n |-> k - 1])
            /\ (n < 5 /\ ~allow_poor) =>
                  /\ ~res.ok
                  /\ res.err = "PoorFrames"
                  /\ res.frames = n

\* Seven frames in strict mode: the frames 0, 1, 3, 5 and 6 were returned.
C22_Witness ==
    /\ pcF = "done"
    /\ gif_path.status = "ok"
    /\ Len(gif_path.dists) = 7
    /\ ~allow_poor
    /\ frames_res = Some(Ok(<<0, 1, 3, 5, 6>>))

\* C23: for the GIF group given to the CLIP stage, kept_gifs holds exactly one
\* GIF of each sub-cluster of the threshold clustering over the mean embeddings,
\* a GIF of maximal byte size in its sub-cluster; discard_duplicate_gifs holds
\* every other GIF of the group; the two lists are disjoint, list no GIF twice
\* and together are the group.
C23_GifReclustering ==
    (pc9 = "done" /\ clip_req # None /\ clip_req[1] # None) =>
        LET grp      == clip_req[1][1]
            pair     == clip_res[1][1]
            clusters == find_gif_embedding_clusters(grp, clip_sim)
            kept     == pair.kept_gifs[1]
            disc     == pair.discard_duplicate_gifs[1]
            keptIds  == {kept[k].uuid : k \in 1..Len(kept)}
            discIds  == {disc[k].uuid : k \in 1..Len(disc)}
            IdsOf(c) == {clusters[c][j].id : j \in 1..Len(clusters[c])}
        IN  /\ pair.kept_gifs # None /\ pair.discard_duplicate_gifs # None
            /\ Len(kept) = Len(clusters)
            /\ \A c \in 1..Len(clusters) :
                  /\ Cardinality(keptIds \cap IdsOf(c)) = 1
                  /\ \E k \in 1..Len(kept) :
                        /\ kept[k].uuid \in IdsOf(c)
                        /\ \A j \in 1..Len(clusters[c]) : clusters[c][j].size <= kept[k].size
            /\ keptIds \cap discIds = {}
            /\ keptIds \cup discIds = {grp[k].id : k \in 1..Len(grp)}
            /\ Len(kept) + Len(disc) = Len(grp)

\* Three GIFs in two sub-clusters: two kept, and the one discarded is smaller
\* than the kept GIF it is similar to.
C23_Witness ==
    /\ pc9 = "done"
    /\ clip_req # None /\ clip_req[1] # None
    /\ Len(clip_req[1][1]) = 3
    /\ Len(clip_res[1][1].kept_gifs[1]) = 2
    /\ \E k \in 1..2 :
          /\ clip_res[1][1].discard_duplicate_gifs[1][1].size
                 < clip_res[1][1].kept_gifs[1][k].size
          /\ cosine_sim_clip(clip_sim, clip_res[1][1].discard_duplicate_gifs[1][1].uuid,
                             clip_res[1][1].kept_gifs[1][k].uuid) > IMAGE_SIM_THRESHOLD

\* C28: the clusters written out are a partition of the input ids: every id of
\* all_ids is in exactly one global cluster, no global cluster is empty, and no
\* id that is not in all_ids is in any cluster.
C28_OutputPartition ==
    pc1 = "done" =>
        /\ \A id \in Range(all_ids) :
              Cardinality({g \in 1..Len(global_clusters) : id \in global_clusters[g]}) = 1
        /\ \A g \in 1..Len(global_clusters) :
              /\ global_clusters[g] # {}
              /\ global_clusters[g] \subseteq Range(all_ids)

\* Two input ids in chunks of one ended in one cluster, merged from the local
\* clusters of the two chunks, while a row of the similarity map also names an
\* id that is no input.
C28_Witness ==
    /\ pc1 = "done"
    /\ Len(all_ids) = 2
    /\ chunk_size = 1
    /\ Len(global_clusters) = 1
    /\ \E a \in DOMAIN sim_map : DOMAIN sim_map[a] \ Range(all_ids) # {}

\* C24: in a dry run the emitter issues no set_payload and no delete_points for
\* any task, the collection stays as it was before the run, no failed task is
\* recorded, and the emitter returns Ok(None).
C24_DryRunBypass ==
    dry_run =>
        /\ sent = <<>>
        /\ collection = InitialCollection
        /\ failed_tasks = <<>>
        /\ pcE = "done" => emit_ret = None

\* A dry run over two tasks has ended.
C24_Witness ==
    /\ dry_run
    /\ pcE = "done"
    /\ Len(all_tasks) = 2
    /\ Len(drained) = 2

\* The failures pushed for the task drained at position k of the stream.
FailuresOf(k) ==
    IF drained[k].triage = None THEN <<>>
    ELSE LET res  == drained[k].triage[1]
             errs == SelectSeq([j \in 1..Len(res) |-> j], LAMBDA j : res[j] # "ok")
         IN  [j \in 1..Len(errs) |->
                 [task |-> all_tasks[drained[k].index], error |-> res[errs[j]]]]

\* C25: a completed task is in the failure list, as the whole task (keep list,
\* discard list, tag lists) beside the error text of an operation of it that
\* failed, if and only if at least one of its operations failed; every failed
\* operation has its entry; when the emitter has returned, outside a dry run
\* every operation of every task was issued and every task completed once,
\* whatever failed, and the return value is Ok(None) without failure and
\* Ok(Some(failure list)) otherwise.
C25_FailureCapture ==
    /\ \A k \in 1..Len(drained) :
          LET t       == all_tasks[drained[k].index]
              entries == {j \in 1..Len(failed_tasks) : failed_tasks[j].task = t}
              errors  == Range(FailuresOf(k))
          IN  /\ (entries # {}) <=> (errors # {})
              /\ {failed_tasks[j] : j \in entries} = errors
              /\ Cardinality(entries) = Len(FailuresOf(k))
    /\ \A j \in 1..Len(failed_tasks) :
          \E k \in 1..Len(drained) : failed_tasks[j].task = all_tasks[drained[k].index]
    /\ pcE = "done" =>
          /\ emit_ret = IF failed_tasks = <<>> THEN None ELSE Some(failed_tasks)
          /\ {drained[k].index : k \in 1..Len(drained)} = 1..Len(all_tasks)
          /\ Len(drained) = Len(all_tasks)
          /\ ~dry_run => sent = Flatten([k \in 1..Len(all_tasks) |-> AtomicOps(all_tasks[k])])

\* Two tasks: the set_payload of the first failed and its delete_points
\* succeeded; the second task ran without failure; the emitter returned the
\* one failure.
C25_Witness ==
    /\ pcE = "done"
    /\ Len(all_tasks) = 2
    /\ Len(failed_tasks) = 1
    /\ failed_tasks[1].task = all_tasks[1]
    /\ Len(all_tasks[1].keep_point_list) = 1
    /\ \E k \in 1..2 : drained[k].index = 1 /\ drained[k].triage = Some(<<"timeout", "ok">>)
    /\ ~collection[all_tasks[1].discard_point_list[1]].present
    /\ emit_ret = Some(failed_tasks)

\* The position in all_tasks of the task of a failure entry.
TaskPosition(entry) == CHOOSE k \in 1..Len(all_tasks) : all_tasks[k] = entry.task

\* C26 (as stated): the failure list is ordered by the position of the task in
\* the input task list, whatever the order in which the tasks complete.
C26_InputOrder ==
    \A a, b \in 1..Len(failed_tasks) :
        a < b => TaskPosition(failed_tasks[a]) <= TaskPosition(failed_tasks[b])

\* C26 (amended): the failure list is ordered by completion: it is the
\* concatenation, in the order in which the tasks completed, of the failures of
\* each task, which are in the order of its operations.
C26_CompletionOrder ==
    failed_tasks = Flatten([k \in 1..Len(drained) |-> FailuresOf(k)])

\* Two tasks ran at once, the second completed first, each with a failure: the
\* failure of the second task is the first entry.
C26_Witness ==
    /\ Len(drained) = 2
    /\ drained[1].index = 2
    /\ Len(failed_tasks) >= 2
    /\ failed_tasks[1].task = all_tasks[2]
    /\ failed_tasks[Len(failed_tasks)].task = all_tasks[1]

\* The calls the inner index received during the k-th call of the wrapper.
InnerCallsOf(k) ==
    SubSeq(hnsw_log[k].index.inner.calls,
           Len(hnsw_log[k - 1].index.inner.calls) + 1,
           Len(hnsw_log[k].index.inner.calls))

\* C27: search_mode_flag is false after construction and, after a call, true
\* exactly when that call or an earlier one was a search or a search_batch, so
\* it never goes back to false; set_searching_mode(true) reaches the inner index
\* in the first search or search_batch, before its searches, and in no other
\* call; an insert after the flip calls set_extend_candidates(false) and then
\* inserts; an insert before the flip only inserts and leaves both settings
\* as they were.
C27_OneWayFlip ==
    /\ hnsw_log # <<>> =>
          /\ hnsw_log[1].name = "new"
          /\ ~hnsw_log[1].index.search_mode_flag
          /\ hnsw_log[Len(hnsw_log)].index = hnsw_index
    /\ \A k \in 2..Len(hnsw_log) :
          LET before  == hnsw_log[k - 1].index
              after   == hnsw_log[k].index
              flipped == \E j \in 2..(k - 1) : hnsw_log[j].name \in {"search", "search_batch"}
              calls   == InnerCallsOf(k)
          IN  /\ before.search_mode_flag = flipped
              /\ before.search_mode_flag => after.search_mode_flag
              /\ IF hnsw_log[k].name = "insert"
                 THEN /\ after.search_mode_flag = flipped
                      /\ IF flipped
                         THEN /\ calls = <<<<"set_extend_candidates", FALSE>>,
                                           <<"parallel_insert">>>>
                              /\ ~after.inner.extend_candidates
                         ELSE /\ calls = <<<<"parallel_insert">>>>
                              /\ after.inner.extend_candidates = before.inner.extend_candidates
                      /\ after.inner.searching_mode = before.inner.searching_mode
                 ELSE /\ after.search_mode_flag
                      /\ after.inner.searching_mode
                      /\ after.inner.extend_candidates = before.inner.extend_candidates
                      /\ IF flipped
                         THEN \A c \in 1..Len(calls) : calls[c] = <<"search">>
                         ELSE /\ calls # <<>>
                              /\ calls[1] = <<"set_searching_mode", TRUE>>
                              /\ \A c \in 2..Len(calls) : calls[c] = <<"search">>

\* An insert, the first search, a second search and an insert after the flip,
\* on an index built with extend_candidates on.
C27_Witness ==
    /\ Len(hnsw_log) = 5
    /\ hnsw_log[1].index.inner.extend_candidates
    /\ hnsw_log[2].name = "insert"
    /\ hnsw_log[3].name = "search"
    /\ hnsw_log[4].name = "search_batch"
    /\ hnsw_log[5].name = "insert"
    /\ ~hnsw_index.inner.extend_candidates

\* The positions of rename_log that hold the event ev of the operation op of
\* the file i.
LogPositions(ev, op, i) ==
    {p \in 1..Len(rename_log) : rename_log[p] = [ev |-> ev, op |-> op, file |-> i]}

====
